---- MODULE Spec2Model ----
(***************************************************************************)
(* A model of hype_bot: the mention orchestration of src/src/bot.py        *)
(* (MentionTracker, BlueskyBot.process_mention), the reply references      *)
(* built by BlueskyClient.send_reply in src/src/client.py, and the thread  *)
(* composer of src/src/formatter.py.                                       *)
(*                                                                         *)
(* process_mention is modelled statement group by statement group: the     *)
(* variable pm_pc is the position inside the method.  The collaborators    *)
(* are inputs: fetch_all_posts returns an empty or a non-empty collection  *)
(* or raises; analyze_user_posts and create_thread_responses return or     *)
(* raise; send_reply returns a (uri, cid) pair or (None, None) and never   *)
(* raises, because its whole body is inside try/except Exception.          *)
(***************************************************************************)
EXTENDS Integers, Sequences, FiniteSets, TLC

\* ------------------------------------------------------------------ bounds

\* Number of distinct mentions (notification URIs) the environment offers.
NumMentions == 2

\* Number of process_mention calls in one behaviour.
MaxCalls == 3

\* Largest timestamp the seen marker is set to.
MaxTime == 2

Mentions == 1 .. NumMentions

\* Lengths of the handles, post texts and malformed URIs the formatter is given,
\* and the large value of a counter.
ShortHandleLen == 16

MidHandleLen == 180

LongHandleLen == 253

LongTextLen == 200

LongUriLen == 290

BigCount == 1234567

\* Largest number of posts in a collection given to the analysis.
MaxPosts == 2

\* ------------------------------------------------------ program constants

MAX_POST_LENGTH == 300

MAX_TEXT_PREVIEW == 80

\* The least length the fit algorithm truncates the preview to.
MIN_PREVIEW_BUDGET == 20

\* The ratio from which the third block is the annotated one.
RATIO_THRESHOLD == 3

RECENT_DAYS == 30

\* The least number of likes a post needs to enter the ratio ranking.
MIN_ENGAGEMENT_FOR_RATIO == 5

\* ------------------------------------------------------------- references

\* Python's None for a uri or a cid.
None == <<"none", 0>>

\* The strong reference (uri, cid) of mention m: mention.uri, mention.cid.
MentionRef(m) == [uri |-> <<"mention", m>>, cid |-> <<"mention", m>>]

\* The (uri, cid) pair send_reply returns for the n-th post the network created.
ReplyRef(n) == [uri |-> <<"reply", n>>, cid |-> <<"reply", n>>]

\* The (None, None) pair send_reply returns when the post was not created.
NoRef == [uri |-> None, cid |-> None]

\* ----------------------------------------------------------------- state

VARIABLES
    processed_uris,   \* MentionTracker.processed_uris
    last_seen_at,     \* MentionTracker.last_seen_at (0 is None)
    pm_pc,            \* position inside process_mention
    pm_m,             \* the mention being processed (0: none yet)
    pm_posts,         \* what fetch_all_posts returned: "unset", "empty", "some"
    thread_posts,     \* the texts create_thread_responses returned
    pm_i,             \* index of the next thread post to send
    current,          \* (current_uri, current_cid)
    root,             \* (root_uri, root_cid)
    pm_ret,           \* return value of the call: "none", "true", "false"
    pm_raised,        \* the collaborator call that raised in this call, or "no"
    pm_fetches,       \* calls of client.fetch_all_posts made by this call
    pm_analyses,      \* calls of analytics.analyze_user_posts made by this call
    pm_sent,          \* the send_reply calls of this call, in order
    pm_marked_at,     \* number of send_reply calls made when the call marked (-1: not)
    pm_was_processed, \* whether the mention was in processed_uris when the call began
    prev,             \* summary of the previous process_mention call
    ever_marked,      \* URIs mark_processed has been called with
    replied,          \* per mention: calls that ended by marking it processed
    ncalls,           \* process_mention calls started
    nposts,           \* posts the network has created
    followers,        \* mentions whose author follows the bot (is_following_bot)
    fn_args,          \* the arguments of the pure function under check
    fn_result,        \* its result, once it has been applied
    running,          \* BlueskyBot.running
    pl_pc,            \* where poll_mentions stands
    mentions,         \* poll_mentions: the batch get_mentions returned
    pl_i,             \* poll_mentions: position in the batch of the next mention
    inbox,            \* the notifications the network lists, newest first
    pl_caught,        \* an exception was caught in the latest iteration
    stopped_at,       \* where poll_mentions stood at the latest stop(), or "never"
    passed_since_stop,\* the loop condition has held since the latest stop()
    interrupted       \* a KeyboardInterrupt has ended the loop

vars == <<processed_uris, last_seen_at, pm_pc, pm_m, pm_posts, thread_posts, pm_i,
          current, root, pm_ret, pm_raised, pm_fetches, pm_analyses, pm_sent,
          pm_marked_at, pm_was_processed, prev, ever_marked, replied, ncalls, nposts,
          followers, fn_args, fn_result, running, pl_pc, mentions, pl_i, inbox,
          pl_caught, stopped_at, passed_since_stop, interrupted>>

poll_vars == <<running, pl_pc, mentions, pl_i, inbox, pl_caught, stopped_at,
               passed_since_stop, interrupted>>

tracker_vars == <<processed_uris, last_seen_at, ever_marked, replied>>

frame_vars == <<pm_m, pm_posts, thread_posts, pm_i, current, root, pm_raised,
                pm_fetches, pm_analyses, pm_was_processed, prev, ncalls, followers, fn_args,
                fn_result, poll_vars>>

\* No previous call.
NoPrev == [m |-> 0, ret |-> "none", raised |-> "no", fetches |-> 0, sends |-> 0]

\* ------------------------------------------------------------- the tracker

is_processed(uri) == uri \in processed_uris

\* A tracker whose mark_processed forgets the URIs marked before.
mark_processed_Forgets(uri) == {uri}

mark_processed(uri) == processed_uris \cup {uri}

\* --------------------------------------------------------------- the client

\* A send_reply that ignores the root passed in and always roots at the parent.
SendReplyRoot_ParentOnly(parent, rt) == parent

\* The root reference send_reply attaches: the root passed in when both its uri
\* and its cid are given, else the parent.
SendReplyRoot(parent, rt) ==
    IF rt.uri # None /\ rt.cid # None THEN rt ELSE parent

\* One send_reply call as the network saw it; ok says whether the post was created.
SendRecord(text, parent, rt, ok) ==
    [text   |-> text,
     parent |-> parent,
     root   |-> SendReplyRoot(parent, rt),
     result |-> IF ok THEN ReplyRef(nposts + 1) ELSE NoRef]

\* ------------------------------------------------------------ the thread

\* The blocks create_thread_responses appends, in its order of appending.
ThreadBlocks == <<"recent", "alltime", "ratio">>

\* ------------------------------------------------------------------ text
\* A Python str is a sequence of code points, each a one-element token: an ASCII
\* character stands for itself, "NL" is the line feed, "QUOTE" the double quote,
\* and "FIRE", "CROWN", "PEPPER", "VS16" (the variation selector that follows the
\* pepper and the heart), "HEART", "REPOST", "SPEECH", "ROCKET" are the emoji code
\* points.

\* An absent optional value (Python's None) where a str may stand.
Absent == <<"ABSENT">>

\* A text of n ordinary characters.
FillText(n) == [i \in 1 .. n |-> "x"]

Min(a, b) == IF a <= b THEN a ELSE b

Max(a, b) == IF a >= b THEN a ELSE b

\* Python's text[:k].
SliceTo(text, k) ==
    IF k >= 0 THEN SubSeq(text, 1, Min(k, Len(text)))
    ELSE SubSeq(text, 1, Max(Len(text) + k, 0))

DigitChar(d) == <<"0", "1", "2", "3", "4", "5", "6", "7", "8", "9">>[d + 1]

\* str(n) of a non-negative int.
RECURSIVE Str(_)
Str(n) == IF n < 10 THEN <<DigitChar(n)>> ELSE Str(n \div 10) \o <<DigitChar(n % 10)>>

\* sep.join(parts).
RECURSIVE Join(_, _)
Join(parts, sep) ==
    IF parts = <<>> THEN <<>>
    ELSE IF Len(parts) = 1 THEN parts[1]
    ELSE parts[1] \o sep \o Join(Tail(parts), sep)

IsSpace(c) == c \in {" ", "NL", "TAB"}

\* The k-th smallest member of a finite set of positions.
Nth(S, k) == CHOOSE i \in S : Cardinality({j \in S : j < i}) = k - 1

\* text.split(): the maximal runs of non-whitespace, in order.
SplitWs(text) ==
    LET starts == {i \in 1 .. Len(text) :
                      ~IsSpace(text[i]) /\ (i = 1 \/ IsSpace(text[i - 1]))}
        ends == {i \in 1 .. Len(text) :
                    ~IsSpace(text[i]) /\ (i = Len(text) \/ IsSpace(text[i + 1]))}
    IN [k \in 1 .. Cardinality(starts) |-> SubSeq(text, Nth(starts, k), Nth(ends, k))]

\* text.split('/'): the pieces between slashes, empty ones kept.
SplitSlash(text) ==
    LET slashes == {i \in 1 .. Len(text) : text[i] = "/"}
        n == Cardinality(slashes)
        from(k) == IF k = 1 THEN 1 ELSE Nth(slashes, k - 1) + 1
        to(k) == IF k = n + 1 THEN Len(text) ELSE Nth(slashes, k) - 1
    IN [k \in 1 .. n + 1 |-> SubSeq(text, from(k), to(k))]

AtScheme ==
    <<"a", "t", ":", "/", "/">>

\* uri.replace('at://', ''): every occurrence removed.  Two occurrences of at://
\* cannot overlap, so character k of the result is the character of uri that
\* lies k places after the characters of the occurrences before it.
RemoveAtScheme(uri) ==
    LET n == Len(AtScheme)
        starts == {i \in 1 .. Len(uri) - n + 1 : SubSeq(uri, i, i + n - 1) = AtScheme}
        before(i) == Cardinality({j \in starts : j < i})
        skipped(k) == Cardinality({i \in starts : i - n * before(i) <= k})
    IN IF starts = {} THEN uri
       ELSE [k \in 1 .. Len(uri) - n * Cardinality(starts) |-> uri[k + n * skipped(k)]]

\* ------------------------------------------------------------ the formatter

ProfilePrefix ==
    <<"h", "t", "t", "p", "s", ":", "/", "/", "b", "s", "k", "y", ".", "a",
      "p", "p", "/", "p", "r", "o", "f", "i", "l", "e", "/">>

PostInfix ==
    <<"/", "p", "o", "s", "t", "/">>

\* ResponseFormatter.uri_to_url.
uri_to_url(uri, handle) ==
    LET parts == SplitSlash(RemoveAtScheme(uri)) IN
    IF Len(parts) >= 3
    THEN LET did == parts[1]
             rkey == parts[3]
             actor == IF handle # Absent /\ handle # <<>> THEN handle ELSE did
         IN ProfilePrefix \o actor \o PostInfix \o rkey
    ELSE uri

\* ResponseFormatter.format_engagement_stats.
format_engagement_stats(likes, reposts, replies) ==
    <<"HEART", "VS16", " ">> \o Str(likes) \o <<" ", "|", " ", "REPOST", " ">>
        \o Str(reposts) \o <<" ", "|", " ", "SPEECH", " ">> \o Str(replies)

\* A truncate_text that appends the ellipsis to max_length characters.
truncate_text_KeepsMaxLength(text, max_length) ==
    IF Len(text) <= max_length THEN text
    ELSE SliceTo(text, max_length) \o <<".", ".", ".">>

\* ResponseFormatter.truncate_text.
truncate_text(text, max_length) ==
    IF Len(text) <= max_length THEN text
    ELSE SliceTo(text, max_length - 3) \o <<".", ".", ".">>

ContentUnavailable ==
    <<"[", "P", "o", "s", "t", " ", "c", "o", "n", "t", "e", "n", "t", " ",
      "u", "n", "a", "v", "a", "i", "l", "a", "b", "l", "e", "]">>

\* ResponseFormatter.get_post_preview; post.text is record_text of the mapping shape
\* and record.text of the object shape.
get_post_preview(post) ==
    IF post.text # Absent /\ post.text # <<>>
    THEN <<"QUOTE">>
             \o truncate_text(Join(SplitWs(post.text), <<" ">>), MAX_TEXT_PREVIEW)
             \o <<"QUOTE">>
    ELSE ContentUnavailable

\* The parts list format_thread_post joins: title line, stats, the score
\* annotation when given, the preview, the permalink.
ThreadPostParts(emoji, title, post, score_text, handle) ==
    <<emoji \o <<" ">> \o title,
      format_engagement_stats(post.like_count, post.repost_count, post.reply_count)>>
        \o (IF score_text # Absent /\ score_text # <<>> THEN <<score_text>> ELSE <<>>)
        \o <<get_post_preview(post), uri_to_url(post.uri, handle)>>

BlankLine == <<"NL", "NL">>

\* A format_thread_post that fits the block by cutting the joined text.
format_thread_post_CutsWholeBlock(emoji, title, post, score_text, handle) ==
    truncate_text(Join(ThreadPostParts(emoji, title, post, score_text, handle), BlankLine),
                  MAX_POST_LENGTH)

\* ResponseFormatter.format_thread_post.
format_thread_post(emoji, title, post, score_text, handle) ==
    LET parts == ThreadPostParts(emoji, title, post, score_text, handle)
        text == Join(parts, BlankLine)
        preview == parts[Len(parts) - 1]
    IN IF Len(text) > MAX_POST_LENGTH
       THEN LET available_for_preview == MAX_POST_LENGTH - (Len(text) - Len(preview))
                short_preview ==
                    truncate_text(preview, Max(MIN_PREVIEW_BUDGET, available_for_preview))
            IN Join([parts EXCEPT ![Len(parts) - 1] = short_preview], BlankLine)
       ELSE text

\* The text before the handle in the error notice.
SorryAt ==
    <<"S", "o", "r", "r", "y", " ", "@">>

\* The text between the handle and the message in the error notice.
CouldNotAnalyze ==
    <<",", " ", "I", " ", "c", "o", "u", "l", "d", "n", "'", "t", " ", "a",
      "n", "a", "l", "y", "z", "e", " ", "y", "o", "u", "r", " ", "p", "o",
      "s", "t", "s", ":", " ">>

\* The text before the message in the error notice without a handle.
CouldNotComplete ==
    <<"S", "o", "r", "r", "y", ",", " ", "I", " ", "c", "o", "u", "l", "d",
      "n", "'", "t", " ", "c", "o", "m", "p", "l", "e", "t", "e", " ", "t",
      "h", "e", " ", "a", "n", "a", "l", "y", "s", "i", "s", ":", " ">>

\* ResponseFormatter.format_error_response.
format_error_response(error_message, handle) ==
    IF handle # Absent /\ handle # <<>>
    THEN SorryAt \o handle \o CouldNotAnalyze \o error_message
    ELSE CouldNotComplete \o error_message

\* The text after the handle in the no-posts notice.
NoPostsYet ==
    <<" ", "d", "o", "e", "s", "n", "'", "t", " ", "h", "a", "v", "e", " ",
      "a", "n", "y", " ", "p", "o", "s", "t", "s", " ", "y", "e", "t", "!",
      " ", "S", "t", "a", "r", "t", " ", "p", "o", "s", "t", "i", "n", "g",
      " ", "t", "o", " ", "b", "u", "i", "l", "d", " ", "y", "o", "u", "r",
      " ", "e", "n", "g", "a", "g", "e", "m", "e", "n", "t", " ", "h", "i",
      "s", "t", "o", "r", "y", ".", " ", "ROCKET">>

\* The no-posts notice without a handle.
NoPostsFound ==
    <<"N", "o", " ", "p", "o", "s", "t", "s", " ", "f", "o", "u", "n", "d",
      " ", "t", "o", " ", "a", "n", "a", "l", "y", "z", "e", ".", " ", "S",
      "t", "a", "r", "t", " ", "p", "o", "s", "t", "i", "n", "g", " ", "t",
      "o", " ", "b", "u", "i", "l", "d", " ", "y", "o", "u", "r", " ", "e",
      "n", "g", "a", "g", "e", "m", "e", "n", "t", " ", "h", "i", "s", "t",
      "o", "r", "y", "!", " ", "ROCKET">>

\* ResponseFormatter.format_no_posts_response.
format_no_posts_response(handle) ==
    IF handle # Absent /\ handle # <<>>
    THEN <<"@">> \o handle \o NoPostsYet
    ELSE NoPostsFound

\* The value None of an analysis slot.
NoResult == [present |-> FALSE]

\* f"{ratio:.1f}" of the ratio num/den: the nearest tenth, and of the two tenths
\* equally near (a ratio ending in .25 or .75, which a float holds exactly) the
\* even one.  A ratio ending in .05, .15, .35, ... is not held exactly and is
\* rounded as its float lies; no such ratio is among the inputs.
FormatRatio(ratio) ==
    LET q == (10 * ratio.num) \div ratio.den
        twice_rem == 2 * ((10 * ratio.num) % ratio.den)
        tenths == IF twice_rem > ratio.den THEN q + 1
                  ELSE IF twice_rem < ratio.den THEN q
                  ELSE IF q % 2 = 0 THEN q ELSE q + 1
    IN Str(tenths \div 10) \o <<".">> \o Str(tenths % 10)

RecentTitle(recent_days, engagement) ==
    <<"R", "e", "c", "e", "n", "t", " ", "(">> \o Str(recent_days)
        \o <<"d", ")", " ", "-", " ">> \o Str(engagement)
        \o <<" ", "t", "o", "t", "a", "l", " ", "e", "n", "g", "a", "g",
             "e", "m", "e", "n", "t">>

AllTimeTitle(engagement) ==
    <<"A", "l", "l", "-", "T", "i", "m", "e", " ", "-", " ">> \o Str(engagement)
        \o <<" ", "t", "o", "t", "a", "l", " ", "e", "n", "g", "a", "g",
             "e", "m", "e", "n", "t">>

MostRatioedTitle ==
    <<"M", "o", "s", "t", " ", "R", "a", "t", "i", "o", "e", "d">>

NoRecentText(recent_days) ==
    <<"FIRE", " ", "N", "o", " ", "p", "o", "s", "t", "s", " ", "f", "o",
      "u", "n", "d", " ", "i", "n", " ", "t", "h", "e", " ", "l", "a", "s",
      "t", " ">>
        \o Str(recent_days) \o <<" ", "d", "a", "y", "s">>

NoAllTimeText ==
    <<"CROWN", " ", "N", "o", " ", "a", "l", "l", "-", "t", "i", "m", "e",
      " ", "p", "o", "s", "t", "s", " ", "f", "o", "u", "n", "d">>

NoRatioText ==
    <<"N", "o", " ", "r", "a", "t", "i", "o", " ", "h", "e", "r", "e", "!",
      " ", "K", "e", "e", "p", " ", "p", "o", "s", "t", "i", "n", "g", " ",
      "t", "h", "o", "s", "e", " ", "b", "a", "n", "g", "e", "r", "s", " ",
      "FIRE">>

RatioLabel ==
    <<"R", "a", "t", "i", "o", ":", " ">>

\* A create_thread_responses whose third block is annotated only above the
\* threshold, not at it.
create_thread_responses_StrictThreshold(top_recent, top_all_time, most_ratioed, handle, recent_days) ==
    <<IF top_recent.present
      THEN format_thread_post(<<"FIRE">>, RecentTitle(recent_days, top_recent.score),
                              top_recent.post, Absent, handle)
      ELSE NoRecentText(recent_days),
      IF top_all_time.present
      THEN format_thread_post(<<"CROWN">>, AllTimeTitle(top_all_time.score),
                              top_all_time.post, Absent, handle)
      ELSE NoAllTimeText,
      IF most_ratioed.present
            /\ most_ratioed.score.num > RATIO_THRESHOLD * most_ratioed.score.den
      THEN format_thread_post(<<"PEPPER", "VS16">>, MostRatioedTitle,
                              most_ratioed.post,
                              RatioLabel \o FormatRatio(most_ratioed.score), handle)
      ELSE NoRatioText>>

\* ResponseFormatter.create_thread_responses.
create_thread_responses(top_recent, top_all_time, most_ratioed, handle, recent_days) ==
    <<IF top_recent.present
      THEN format_thread_post(<<"FIRE">>, RecentTitle(recent_days, top_recent.score),
                              top_recent.post, Absent, handle)
      ELSE NoRecentText(recent_days),
      IF top_all_time.present
      THEN format_thread_post(<<"CROWN">>, AllTimeTitle(top_all_time.score),
                              top_all_time.post, Absent, handle)
      ELSE NoAllTimeText,
      IF most_ratioed.present
      THEN IF most_ratioed.score.num >= RATIO_THRESHOLD * most_ratioed.score.den
           THEN format_thread_post(<<"PEPPER", "VS16">>, MostRatioedTitle,
                                   most_ratioed.post,
                                   RatioLabel \o FormatRatio(most_ratioed.score),
                                   handle)
           ELSE NoRatioText
      ELSE NoRatioText>>


\* ------------------------------------------------------------ the analysis
\* A post is a record: shape says whether it is an attribute-bearing object or
\* the key/value mapping fetch_all_posts builds; a counter is a number or
\* NoCounter where the attribute or key is missing; indexed_at and created_at
\* (the record's creation time) are timestamp strings.  A timestamp string is
\* missing, unparseable, or parses to a zone-aware or a naive datetime, which the
\* model keeps as its wall-clock age in days against the local wall clock.

\* The counter of a post that has no such attribute or key.
NoCounter == -1

\* The timestamp strings.
NoTimestamp == [kind |-> "missing", age |-> 0]

Unparseable == [kind |-> "unparseable", age |-> 0]

AwareTime(age) == [kind |-> "aware", age |-> age]

NaiveTime(age) == [kind |-> "naive", age |-> age]

\* The value None of get_post_date.
NoDate == [kind |-> "none", age |-> 0]

\* hasattr(post, '<counter>') for the counter value v of post: an object has the
\* attributes it was given, a mapping has none of its keys as attributes.
HasCounter(post, v) == post.shape = "object" /\ v # NoCounter

\* hasattr(post, 'indexed_at'), and hasattr(post, 'record') and
\* hasattr(post.record, 'created_at'), for the timestamp string ts of post.
HasTimestamp(post, ts) == post.shape = "object" /\ ts # NoTimestamp

\* post.<counter> if hasattr(post, '<counter>') else 0.
CounterOrZero(post, v) == IF HasCounter(post, v) THEN v ELSE 0

\* PostAnalytics.calculate_engagement.
calculate_engagement(post) ==
    CounterOrZero(post, post.like_count) + CounterOrZero(post, post.repost_count)
        + CounterOrZero(post, post.reply_count)

\* PostAnalytics.calculate_ratio: replies / max(likes, 1), kept as a fraction.
calculate_ratio(post) ==
    [num |-> CounterOrZero(post, post.reply_count),
     den |-> Max(CounterOrZero(post, post.like_count), 1)]

\* parser.parse inside the try of get_post_date: a datetime, or None when the
\* parse raises.
ParseOrNone(ts) == IF ts.kind \in {"aware", "naive"} THEN ts ELSE NoDate

\* PostAnalytics.get_post_date.
get_post_date(post) ==
    IF HasTimestamp(post, post.indexed_at) THEN ParseOrNone(post.indexed_at)
    ELSE IF HasTimestamp(post, post.created_at) THEN ParseOrNone(post.created_at)
    ELSE NoDate

\* a >= b for two fractions with positive denominators.
RatioGeq(a, b) == a.num * b.den >= b.num * a.den

\* scored.sort(key=score, reverse=True); scored[0] for a list of integer scores:
\* the sort is stable, so the first of the entries with the greatest score.
TopByScore(scored) ==
    LET i == CHOOSE k \in 1 .. Len(scored) :
                 /\ \A j \in 1 .. Len(scored) : scored[k].score >= scored[j].score
                 /\ \A j \in 1 .. k - 1 : scored[j].score < scored[k].score
    IN [present |-> TRUE, post |-> scored[i].post, score |-> scored[i].score]

\* The same for a list of fraction scores.
TopByRatio(scored) ==
    LET i == CHOOSE k \in 1 .. Len(scored) :
                 /\ \A j \in 1 .. Len(scored) : RatioGeq(scored[k].score, scored[j].score)
                 /\ \A j \in 1 .. k - 1 : ~RatioGeq(scored[j].score, scored[k].score)
    IN [present |-> TRUE, post |-> scored[i].post, score |-> scored[i].score]

\* The loop of find_top_recent_post from post i on.  cutoff_aware says whether
\* an earlier zone-aware post has made cutoff_date zone-aware; recent_posts is the
\* list built so far.  Comparing a naive post date with a zone-aware cutoff
\* raises TypeError, which leaves the loop and the function.
RECURSIVE RecentLoop(_, _, _, _, _)
RecentLoop(posts, days, i, cutoff_aware, recent_posts) ==
    IF i > Len(posts) THEN [raised |-> FALSE, recent_posts |-> recent_posts]
    ELSE LET post_date == get_post_date(posts[i])
             aware == cutoff_aware \/ post_date.kind = "aware"
         IN IF post_date = NoDate
            THEN RecentLoop(posts, days, i + 1, cutoff_aware, recent_posts)
            ELSE IF post_date.kind = "naive" /\ cutoff_aware
            THEN [raised |-> TRUE, recent_posts |-> recent_posts]
            ELSE IF post_date.age <= days
            THEN RecentLoop(posts, days, i + 1, aware,
                            Append(recent_posts,
                                   [post |-> posts[i],
                                    score |-> calculate_engagement(posts[i])]))
            ELSE RecentLoop(posts, days, i + 1, aware, recent_posts)

\* A call that raised.
Raised == [raised |-> TRUE, value |-> NoResult]

\* A call that returned v.
Returns(v) == [raised |-> FALSE, value |-> v]

\* PostAnalytics.find_top_recent_post.
find_top_recent_post(posts, days) ==
    LET scan == RecentLoop(posts, days, 1, FALSE, <<>>)
    IN IF scan.raised THEN Raised
       ELSE IF scan.recent_posts = <<>> THEN Returns(NoResult)
       ELSE Returns(TopByScore(scan.recent_posts))

\* A find_top_all_time_post that does not sort: it returns the first post.
find_top_all_time_post_FirstPost(posts) ==
    IF posts = <<>> THEN Returns(NoResult)
    ELSE Returns([present |-> TRUE, post |-> posts[1],
                  score |-> calculate_engagement(posts[1])])

\* PostAnalytics.find_top_all_time_post.
find_top_all_time_post(posts) ==
    IF posts = <<>> THEN Returns(NoResult)
    ELSE Returns(TopByScore([i \in 1 .. Len(posts) |->
                                [post |-> posts[i],
                                 score |-> calculate_engagement(posts[i])]]))

\* The posts of find_most_ratioed_post that have the minimum of likes, in order.
RECURSIVE QualifyingPosts(_, _, _)
QualifyingPosts(posts, min_likes, i) ==
    IF i > Len(posts) THEN <<>>
    ELSE (IF CounterOrZero(posts[i], posts[i].like_count) >= min_likes
          THEN <<[post |-> posts[i], score |-> calculate_ratio(posts[i])]>>
          ELSE <<>>) \o QualifyingPosts(posts, min_likes, i + 1)

\* PostAnalytics.find_most_ratioed_post, of an engine constructed with min_likes.
find_most_ratioed_post(posts, min_likes) ==
    LET qualifying_posts == QualifyingPosts(posts, min_likes, 1)
    IN IF qualifying_posts = <<>> THEN Returns(NoResult)
       ELSE Returns(TopByRatio(qualifying_posts))

\* An analyze_user_posts that leaves out of the mapping the slots without result.
analyze_user_posts_DropsEmptySlots(posts, recent_days, min_likes) ==
    LET slots == [top_recent |-> find_top_recent_post(posts, recent_days),
                  top_all_time |-> find_top_all_time_post(posts),
                  most_ratioed |-> find_most_ratioed_post(posts, min_likes)]
        kept == {k \in DOMAIN slots : slots[k].value.present}
    IN IF \E k \in DOMAIN slots : slots[k].raised THEN Raised
       ELSE Returns([k \in kept |-> slots[k].value])

\* PostAnalytics.analyze_user_posts: the three queries in the order the mapping
\* literal evaluates them; an exception of a query leaves the function.
analyze_user_posts(posts, recent_days, min_likes) ==
    LET top_recent == find_top_recent_post(posts, recent_days)
        top_all_time == find_top_all_time_post(posts)
        most_ratioed == find_most_ratioed_post(posts, min_likes)
    IN IF top_recent.raised \/ top_all_time.raised \/ most_ratioed.raised
       THEN Raised
       ELSE Returns([top_recent |-> top_recent.value,
                     top_all_time |-> top_all_time.value,
                     most_ratioed |-> most_ratioed.value])

\* ---------------------------------------------------------------- Init

\* The pure function under check has not been applied.
NotRun == [done |-> FALSE]

\* No pure function is under check.
NoArgs == [fn |-> "none"]

\* The tracker and the bot after construction, no call made yet.
InitBot ==
    /\ processed_uris = {}
    /\ last_seen_at = 0
    /\ pm_pc = "idle"
    /\ pm_m = 0
    /\ pm_posts = "unset"
    /\ thread_posts = <<>>
    /\ pm_i = 0
    /\ current = NoRef
    /\ root = NoRef
    /\ pm_ret = "none"
    /\ pm_raised = "no"
    /\ pm_fetches = 0
    /\ pm_analyses = 0
    /\ pm_sent = <<>>
    /\ pm_marked_at = -1
    /\ pm_was_processed = FALSE
    /\ prev = NoPrev
    /\ ever_marked = {}
    /\ replied = [m \in Mentions |-> 0]
    /\ ncalls = 0
    /\ nposts = 0
    /\ running = FALSE
    /\ pl_pc = "idle"
    /\ mentions = <<>>
    /\ pl_i = 0
    /\ inbox = <<>>
    /\ pl_caught = FALSE
    /\ stopped_at = "never"
    /\ passed_since_stop = FALSE
    /\ interrupted = FALSE

Init ==
    /\ InitBot
    /\ followers \in SUBSET Mentions
    /\ fn_args = NoArgs
    /\ fn_result = NotRun

\* ------------------------------------------------------- process_mention

\* The caller invokes process_mention(mention): lines 76-79.
Call(m) ==
    /\ pm_pc \in {"idle", "returned"}
    /\ ncalls < MaxCalls
    /\ ncalls' = ncalls + 1
    /\ prev' = IF pm_pc = "returned"
               THEN [m |-> pm_m, ret |-> pm_ret, raised |-> pm_raised,
                     fetches |-> pm_fetches, sends |-> Len(pm_sent)]
               ELSE NoPrev
    /\ pm_m' = m
    /\ pm_pc' = "check"
    /\ pm_posts' = "unset"
    /\ thread_posts' = <<>>
    /\ pm_i' = 0
    /\ current' = NoRef
    /\ root' = NoRef
    /\ pm_ret' = "none"
    /\ pm_raised' = "no"
    /\ pm_fetches' = 0
    /\ pm_analyses' = 0
    /\ pm_sent' = <<>>
    /\ pm_marked_at' = -1
    /\ pm_was_processed' = is_processed(m)
    /\ UNCHANGED <<tracker_vars, nposts, followers, fn_args, fn_result, poll_vars>>

\* A duplicate check that never skips: every call goes on to fetch.
CheckProcessed_NoSkip ==
    /\ pm_pc = "check"
    /\ pm_pc' = "fetch"
    /\ UNCHANGED <<tracker_vars, frame_vars, pm_ret, pm_sent, pm_marked_at, nposts>>

\* A duplicate check that skips but also resets the seen marker.
CheckProcessed_ResetsSeen ==
    /\ pm_pc = "check"
    /\ IF is_processed(pm_m)
       THEN /\ pm_pc' = "returned"
            /\ pm_ret' = "true"
            /\ last_seen_at' = 0
       ELSE /\ pm_pc' = "fetch"
            /\ pm_ret' = pm_ret
            /\ last_seen_at' = last_seen_at
    /\ UNCHANGED <<processed_uris, ever_marked, replied, frame_vars, pm_sent,
                   pm_marked_at, nposts>>

\* Lines 81-91: the duplicate check; an already processed mention returns True.
CheckProcessed ==
    /\ pm_pc = "check"
    /\ IF is_processed(pm_m)
       THEN /\ pm_pc' = "returned"
            /\ pm_ret' = "true"
       ELSE /\ pm_pc' = "fetch"
            /\ pm_ret' = pm_ret
    /\ UNCHANGED <<tracker_vars, frame_vars, pm_sent, pm_marked_at, nposts>>

\* Lines 93-97: fetch the author's posts.
FetchPosts ==
    /\ pm_pc = "fetch"
    /\ pm_fetches' = pm_fetches + 1
    /\ \E outcome \in {"empty", "some", "raise"} :
          IF outcome = "raise"
          THEN /\ pm_raised' = "fetch"
               /\ pm_pc' = "except"
               /\ pm_posts' = pm_posts
          ELSE /\ pm_raised' = pm_raised
               /\ pm_posts' = outcome
               /\ pm_pc' = IF outcome = "empty" THEN "noposts" ELSE "analyse"
    /\ UNCHANGED <<tracker_vars, pm_m, thread_posts, pm_i, current, root, pm_ret,
                   pm_analyses, pm_sent, pm_marked_at, pm_was_processed, prev,
                   ncalls, nposts, followers, fn_args, fn_result, poll_vars>>

\* A no-posts branch that sends the notice but lacks the return: it goes on to
\* analyse the empty collection.
NoPostsReply_FallsThrough ==
    /\ pm_pc = "noposts"
    /\ \E ok \in BOOLEAN :
          /\ pm_sent' = Append(pm_sent,
                               SendRecord("noposts", MentionRef(pm_m), NoRef, ok))
          /\ nposts' = IF ok THEN nposts + 1 ELSE nposts
    /\ pm_pc' = "analyse"
    /\ UNCHANGED <<tracker_vars, frame_vars, pm_ret, pm_marked_at>>

\* Lines 99-108: no posts: one notice replying to the mention, mark, return True.
\* The result of send_reply is not looked at.
NoPostsReply ==
    /\ pm_pc = "noposts"
    /\ \E ok \in BOOLEAN :
          /\ pm_sent' = Append(pm_sent,
                               SendRecord("noposts", MentionRef(pm_m), NoRef, ok))
          /\ nposts' = IF ok THEN nposts + 1 ELSE nposts
    /\ processed_uris' = mark_processed(pm_m)
    /\ ever_marked' = ever_marked \cup {pm_m}
    /\ replied' = [replied EXCEPT ![pm_m] = @ + 1]
    /\ pm_marked_at' = Len(pm_sent')
    /\ pm_ret' = "true"
    /\ pm_pc' = "returned"
    /\ UNCHANGED <<last_seen_at, frame_vars>>

\* Lines 110-114: analyse the posts.
Analyse ==
    /\ pm_pc = "analyse"
    /\ pm_analyses' = pm_analyses + 1
    /\ \E raises \in BOOLEAN :
          IF raises
          THEN /\ pm_raised' = "analyse"
               /\ pm_pc' = "except"
          ELSE /\ pm_raised' = pm_raised
               /\ pm_pc' = "format"
    /\ UNCHANGED <<tracker_vars, pm_m, pm_posts, thread_posts, pm_i, current, root,
                   pm_ret, pm_fetches, pm_sent, pm_marked_at, pm_was_processed, prev,
                   ncalls, nposts, followers, fn_args, fn_result, poll_vars>>

\* Lines 116-123: format the thread.
FormatThread ==
    /\ pm_pc = "format"
    /\ \E raises \in BOOLEAN :
          IF raises
          THEN /\ pm_raised' = "format"
               /\ pm_pc' = "except"
               /\ thread_posts' = thread_posts
          ELSE /\ pm_raised' = pm_raised
               /\ thread_posts' = ThreadBlocks
               /\ pm_pc' = "send_first"
    /\ UNCHANGED <<tracker_vars, pm_m, pm_posts, pm_i, current, root, pm_ret,
                   pm_fetches, pm_analyses, pm_sent, pm_marked_at, pm_was_processed,
                   prev, ncalls, nposts, followers, fn_args, fn_result, poll_vars>>

\* A first send that marks the mention processed as soon as the post is created.
SendFirst_MarksEarly ==
    /\ pm_pc = "send_first"
    /\ \E ok \in BOOLEAN :
          LET rec == SendRecord(thread_posts[1], MentionRef(pm_m), NoRef, ok) IN
          /\ pm_sent' = Append(pm_sent, rec)
          /\ nposts' = IF ok THEN nposts + 1 ELSE nposts
          /\ IF rec.result.uri = None
             THEN /\ pm_ret' = "false"
                  /\ pm_pc' = "returned"
                  /\ UNCHANGED <<current, root, pm_i, processed_uris>>
             ELSE /\ current' = rec.result
                  /\ root' = rec.result
                  /\ pm_i' = 2
                  /\ pm_pc' = "send_next"
                  /\ pm_ret' = pm_ret
                  /\ processed_uris' = mark_processed(pm_m)
    /\ UNCHANGED <<last_seen_at, ever_marked, replied, pm_m, pm_posts, thread_posts,
                   pm_raised, pm_fetches, pm_analyses, pm_marked_at, pm_was_processed,
                   prev, ncalls, followers, fn_args, fn_result, poll_vars>>

\* A first send that does not look at what send_reply returned and goes on to
\* the rest of the thread.
SendFirst_IgnoresFailure ==
    /\ pm_pc = "send_first"
    /\ \E ok \in BOOLEAN :
          LET rec == SendRecord(thread_posts[1], MentionRef(pm_m), NoRef, ok) IN
          /\ pm_sent' = Append(pm_sent, rec)
          /\ nposts' = IF ok THEN nposts + 1 ELSE nposts
          /\ current' = rec.result
          /\ root' = rec.result
    /\ pm_i' = 2
    /\ pm_pc' = "send_next"
    /\ UNCHANGED <<tracker_vars, pm_m, pm_posts, thread_posts, pm_ret, pm_raised,
                   pm_fetches, pm_analyses, pm_marked_at, pm_was_processed, prev,
                   ncalls, followers, fn_args, fn_result, poll_vars>>

\* Lines 129-143: the first post replies to the mention; no root is passed.  When
\* no uri comes back the call returns False without marking.
SendFirst ==
    /\ pm_pc = "send_first"
    /\ \E ok \in BOOLEAN :
          LET rec == SendRecord(thread_posts[1], MentionRef(pm_m), NoRef, ok) IN
          /\ pm_sent' = Append(pm_sent, rec)
          /\ nposts' = IF ok THEN nposts + 1 ELSE nposts
          /\ IF rec.result.uri = None
             THEN /\ pm_ret' = "false"
                  /\ pm_pc' = "returned"
                  /\ UNCHANGED <<current, root, pm_i>>
             ELSE /\ current' = rec.result
                  /\ root' = rec.result
                  /\ pm_i' = 2
                  /\ pm_pc' = "send_next"
                  /\ pm_ret' = pm_ret
    /\ UNCHANGED <<tracker_vars, pm_m, pm_posts, thread_posts, pm_raised, pm_fetches,
                   pm_analyses, pm_marked_at, pm_was_processed, prev, ncalls, followers, fn_args, fn_result, poll_vars>>

\* A loop iteration that passes no root to send_reply.
SendNext_NoRoot ==
    /\ pm_pc = "send_next"
    /\ pm_i <= Len(thread_posts)
    /\ \E ok \in BOOLEAN :
          LET rec == SendRecord(thread_posts[pm_i], current, NoRef, ok) IN
          /\ pm_sent' = Append(pm_sent, rec)
          /\ nposts' = IF ok THEN nposts + 1 ELSE nposts
          /\ current' = IF rec.result.uri # None THEN rec.result ELSE current
    /\ pm_i' = pm_i + 1
    /\ UNCHANGED <<tracker_vars, pm_pc, pm_m, pm_posts, thread_posts, root, pm_ret,
                   pm_raised, pm_fetches, pm_analyses, pm_marked_at, pm_was_processed,
                   prev, ncalls, followers, fn_args, fn_result, poll_vars>>

\* A loop iteration that takes the result of send_reply as the next parent even
\* when no post was created.
SendNext_AdvancesOnFailure ==
    /\ pm_pc = "send_next"
    /\ pm_i <= Len(thread_posts)
    /\ \E ok \in BOOLEAN :
          LET rec == SendRecord(thread_posts[pm_i], current, root, ok) IN
          /\ pm_sent' = Append(pm_sent, rec)
          /\ nposts' = IF ok THEN nposts + 1 ELSE nposts
          /\ current' = rec.result
    /\ pm_i' = pm_i + 1
    /\ UNCHANGED <<tracker_vars, pm_pc, pm_m, pm_posts, thread_posts, root, pm_ret,
                   pm_raised, pm_fetches, pm_analyses, pm_marked_at, pm_was_processed,
                   prev, ncalls, followers, fn_args, fn_result, poll_vars>>

\* Lines 145-164: one iteration of the loop over thread_posts[1:].
SendNext ==
    /\ pm_pc = "send_next"
    /\ pm_i <= Len(thread_posts)
    /\ \E ok \in BOOLEAN :
          LET rec == SendRecord(thread_posts[pm_i], current, root, ok) IN
          /\ pm_sent' = Append(pm_sent, rec)
          /\ nposts' = IF ok THEN nposts + 1 ELSE nposts
          /\ current' = IF rec.result.uri # None THEN rec.result ELSE current
    /\ pm_i' = pm_i + 1
    /\ UNCHANGED <<tracker_vars, pm_pc, pm_m, pm_posts, thread_posts, root, pm_ret,
                   pm_raised, pm_fetches, pm_analyses, pm_marked_at, pm_was_processed,
                   prev, ncalls, followers, fn_args, fn_result, poll_vars>>

\* Lines 166-168: the loop is over: mark the mention processed and return True.
MarkAndReturn ==
    /\ pm_pc = "send_next"
    /\ pm_i > Len(thread_posts)
    /\ processed_uris' = mark_processed(pm_m)
    /\ ever_marked' = ever_marked \cup {pm_m}
    /\ replied' = [replied EXCEPT ![pm_m] = @ + 1]
    /\ pm_marked_at' = Len(pm_sent)
    /\ pm_ret' = "true"
    /\ pm_pc' = "returned"
    /\ UNCHANGED <<last_seen_at, frame_vars, pm_sent, nposts>>

\* A handler that logs and returns False without trying the error reply.
ExceptHandler_NoReply ==
    /\ pm_pc = "except"
    /\ pm_ret' = "false"
    /\ pm_pc' = "returned"
    /\ UNCHANGED <<tracker_vars, frame_vars, pm_marked_at, pm_sent, nposts>>

\* Lines 170-187: the handler: one error reply to the mention, its result not
\* looked at, then return False.
ExceptHandler ==
    /\ pm_pc = "except"
    /\ \E ok \in BOOLEAN :
          /\ pm_sent' = Append(pm_sent,
                               SendRecord("error", MentionRef(pm_m), NoRef, ok))
          /\ nposts' = IF ok THEN nposts + 1 ELSE nposts
    /\ pm_ret' = "false"
    /\ pm_pc' = "returned"
    /\ UNCHANGED <<tracker_vars, frame_vars, pm_marked_at>>

\* MentionTracker.update_last_seen, called by the polling loop between calls.
update_last_seen ==
    /\ pm_pc \in {"idle", "returned"}
    /\ \E t \in 1 .. MaxTime : last_seen_at' = t
    /\ UNCHANGED <<processed_uris, ever_marked, replied, pm_pc, pm_m, pm_posts,
                   thread_posts, pm_i, current, root, pm_ret, pm_raised, pm_fetches,
                   pm_analyses, pm_sent, pm_marked_at, pm_was_processed, prev, ncalls,
                   nposts, followers, fn_args, fn_result, poll_vars>>

Next ==
    \/ \E m \in Mentions : Call(m)
    \/ CheckProcessed
    \/ FetchPosts
    \/ NoPostsReply
    \/ Analyse
    \/ FormatThread
    \/ SendFirst
    \/ SendNext
    \/ MarkAndReturn
    \/ ExceptHandler
    \/ update_last_seen

Spec == Init /\ [][Next]_vars

\* ------------------------------------------- the formatter, applied to inputs

\* The standard post identifier at://did:plc:abc123/app.bsky.feed.post/xyz789.
WellFormedUri ==
    <<"a", "t", ":", "/", "/", "d", "i", "d", ":", "p", "l", "c", ":", "a", "b",
      "c", "1", "2", "3", "/", "a", "p", "p", ".", "b", "s", "k", "y", ".", "f",
      "e", "e", "d", ".", "p", "o", "s", "t", "/", "x", "y", "z", "7", "8", "9">>

\* A post text with leading, trailing and repeated whitespace.
SpacedText == <<" ", "h", "i", " ", " ", "y", "o", "u", "NL", "NL", "x", " ">>

FmtTexts ==
    {Absent, <<>>, SpacedText, FillText(1), FillText(MAX_TEXT_PREVIEW),
     FillText(MAX_TEXT_PREVIEW + 1), FillText(LongTextLen)}

\* A well-formed identifier, a short malformed one and a long malformed one.
FmtUris == {WellFormedUri, <<"n", "o", "t", "-", "a", "-", "u", "r", "i">>,
            FillText(LongUriLen)}

FmtHandles == {Absent, FillText(ShortHandleLen), FillText(MidHandleLen),
               FillText(LongHandleLen)}

\* Posts with small and with large counters.
FmtPosts ==
    {[like_count |-> c, repost_count |-> c \div 2, reply_count |-> c \div 5,
      text |-> t, uri |-> u] : c \in {10, BigCount}, t \in FmtTexts, u \in FmtUris}

\* Ratios 0.5, 2.99, 3.0, 3.25 and a large one.
FmtRatios == {[num |-> 1, den |-> 2], [num |-> 299, den |-> 100],
              [num |-> 3, den |-> 1], [num |-> 13, den |-> 4],
              [num |-> BigCount, den |-> 1]}

\* The engagement score the analysis pairs with post p.
Engagement(p) == p.like_count + p.repost_count + p.reply_count

\* The argument tuples of create_thread_responses: one post in the slots that
\* are present, every combination of present and absent slots.
FmtInputs ==
    {[fn |-> "create_thread_responses",
      top_recent |-> IF pr[1] THEN [present |-> TRUE, post |-> p, score |-> Engagement(p)]
                     ELSE NoResult,
      top_all_time |-> IF pr[2] THEN [present |-> TRUE, post |-> p, score |-> Engagement(p)]
                       ELSE NoResult,
      most_ratioed |-> IF pr[3] THEN [present |-> TRUE, post |-> p, score |-> r]
                       ELSE NoResult,
      handle |-> h,
      recent_days |-> RECENT_DAYS] :
        p \in FmtPosts, r \in FmtRatios, h \in FmtHandles,
        pr \in [1 .. 3 -> BOOLEAN]}

FmtInit ==
    /\ InitBot
    /\ followers = {}
    /\ fn_args \in FmtInputs
    /\ fn_result = NotRun

\* The caller applies create_thread_responses to the arguments.
RenderThread ==
    /\ fn_args.fn = "create_thread_responses"
    /\ ~fn_result.done
    /\ fn_result' = [done |-> TRUE,
                     value |-> create_thread_responses(fn_args.top_recent,
                                  fn_args.top_all_time, fn_args.most_ratioed,
                                  fn_args.handle, fn_args.recent_days)]
    /\ UNCHANGED <<tracker_vars, pm_pc, pm_m, pm_posts, thread_posts, pm_i, current,
                   root, pm_ret, pm_raised, pm_fetches, pm_analyses, pm_sent,
                   pm_marked_at, pm_was_processed, prev, ncalls, nposts, followers,
                   fn_args, poll_vars>>

FmtNext == RenderThread

SpecFmt == FmtInit /\ [][FmtNext]_vars

\* ------------------------------------ the text helpers, applied to inputs

\* Exception messages: empty, short, and as long as a post may be.
ErrMessages ==
    {<<>>, <<"t", "i", "m", "e", "o", "u", "t">>, FillText(LongTextLen),
     FillText(MAX_POST_LENGTH)}

\* The argument tuples of the notices process_mention sends for a degenerate
\* outcome.
NoticeInputs ==
    {[fn |-> "format_no_posts_response", handle |-> h] : h \in FmtHandles \cup {<<>>}}
        \cup {[fn |-> "format_error_response", error_message |-> e, handle |-> h] :
                 e \in ErrMessages, h \in FmtHandles \cup {<<>>}}

\* A text of distinct characters.
Alphabet ==
    <<"a", "b", "c", "d", "e", "f", "g", "h", "i", "j", "k", "l">>

\* The argument tuples of truncate_text: texts shorter than, as long as and
\* longer than the maximum lengths, which go from 0 up to the preview's 80.
TruncateInputs ==
    {[fn |-> "truncate_text", text |-> t, max_length |-> n] :
        t \in {<<>>, SubSeq(Alphabet, 1, 3), Alphabet, SpacedText,
               FillText(MAX_TEXT_PREVIEW), FillText(MAX_TEXT_PREVIEW + 1)},
        n \in {0, 1, 2, 3, 4, Len(Alphabet), MIN_PREVIEW_BUDGET, MAX_TEXT_PREVIEW}}

\* An identifier with a segment after the record key.
FourSegmentUri == WellFormedUri \o <<"/", "e", "x", "t", "r", "a">>

\* A web address where a post identifier is expected.
WebUrl ==
    <<"h", "t", "t", "p", "s", ":", "/", "/", "b", "s", "k", "y", ".", "a",
      "p", "p", "/", "p", "r", "o", "f", "i", "l", "e", "/", "a", ".", "b",
      "s", "k", "y", ".", "s", "o", "c", "i", "a", "l", "/", "p", "o", "s",
      "t", "/", "x", "y", "z", "7", "8", "9">>

\* An identifier of two segments.
TwoSegmentUri ==
    <<"a", "t", ":", "/", "/", "d", "i", "d", ":", "p", "l", "c", ":", "a",
      "b", "c", "1", "2", "3", "/", "x", "y", "z", "7", "8", "9">>

\* The argument tuples of uri_to_url.
UrlInputs ==
    {[fn |-> "uri_to_url", uri |-> u, handle |-> h] :
        u \in {WellFormedUri, FourSegmentUri, WebUrl, TwoSegmentUri,
               <<"n", "o", "t", "-", "a", "-", "u", "r", "i">>, <<>>},
        h \in {Absent, <<>>, FillText(ShortHandleLen)}}

TextInputs == NoticeInputs \cup TruncateInputs \cup UrlInputs

TextInit ==
    /\ InitBot
    /\ followers = {}
    /\ fn_args \in TextInputs
    /\ fn_result = NotRun

\* Lines 101-102 of process_mention: the notice for an author without posts.
RenderNoPosts ==
    /\ fn_args.fn = "format_no_posts_response"
    /\ ~fn_result.done
    /\ fn_result' = [done |-> TRUE, value |-> format_no_posts_response(fn_args.handle)]
    /\ UNCHANGED <<tracker_vars, pm_pc, pm_m, pm_posts, thread_posts, pm_i, current,
                   root, pm_ret, pm_raised, pm_fetches, pm_analyses, pm_sent,
                   pm_marked_at, pm_was_processed, prev, ncalls, nposts, followers,
                   fn_args, poll_vars>>

\* Lines 175-178 of process_mention: the notice for a raised exception e, whose
\* message is str(e).
RenderError ==
    /\ fn_args.fn = "format_error_response"
    /\ ~fn_result.done
    /\ fn_result' = [done |-> TRUE,
                     value |-> format_error_response(fn_args.error_message,
                                                     fn_args.handle)]
    /\ UNCHANGED <<tracker_vars, pm_pc, pm_m, pm_posts, thread_posts, pm_i, current,
                   root, pm_ret, pm_raised, pm_fetches, pm_analyses, pm_sent,
                   pm_marked_at, pm_was_processed, prev, ncalls, nposts, followers,
                   fn_args, poll_vars>>

\* A caller applies truncate_text to a text and a maximum length.
ApplyTruncate ==
    /\ fn_args.fn = "truncate_text"
    /\ ~fn_result.done
    /\ fn_result' = [done |-> TRUE,
                     value |-> truncate_text(fn_args.text, fn_args.max_length)]
    /\ UNCHANGED <<tracker_vars, pm_pc, pm_m, pm_posts, thread_posts, pm_i, current,
                   root, pm_ret, pm_raised, pm_fetches, pm_analyses, pm_sent,
                   pm_marked_at, pm_was_processed, prev, ncalls, nposts, followers,
                   fn_args, poll_vars>>

\* A caller applies uri_to_url to an identifier and a handle.
ApplyUriToUrl ==
    /\ fn_args.fn = "uri_to_url"
    /\ ~fn_result.done
    /\ fn_result' = [done |-> TRUE, value |-> uri_to_url(fn_args.uri, fn_args.handle)]
    /\ UNCHANGED <<tracker_vars, pm_pc, pm_m, pm_posts, thread_posts, pm_i, current,
                   root, pm_ret, pm_raised, pm_fetches, pm_analyses, pm_sent,
                   pm_marked_at, pm_was_processed, prev, ncalls, nposts, followers,
                   fn_args, poll_vars>>

TextNext ==
    \/ RenderNoPosts
    \/ RenderError
    \/ ApplyTruncate
    \/ ApplyUriToUrl

SpecText == TextInit /\ [][TextNext]_vars

\* --------------------------------------------- the analysis, applied to inputs

\* Counters: none given; 4 likes and 17 replies; 5 likes, 1 repost and 15
\* replies; 10 likes, no repost counter and 30 replies.  The second and third
\* have the same engagement, the third and fourth the same ratio, and the
\* second has the greatest ratio but too few likes.
AnCounters ==
    {<<NoCounter, NoCounter, NoCounter>>, <<4, 0, 17>>, <<5, 1, 15>>,
     <<10, NoCounter, 30>>}

\* Timestamps, as indexed_at and created_at: none; zone-aware on the edge of the
\* window; naive and a day too old; naive and recent from created_at alone;
\* unparseable with a good created_at behind it.
AnTimes ==
    {<<NoTimestamp, NoTimestamp>>, <<AwareTime(RECENT_DAYS), NoTimestamp>>,
     <<NaiveTime(RECENT_DAYS + 1), NoTimestamp>>, <<NoTimestamp, NaiveTime(0)>>,
     <<Unparseable, AwareTime(0)>>}

MakePost(shape, c, t) ==
    [shape |-> shape, like_count |-> c[1], repost_count |-> c[2],
     reply_count |-> c[3], indexed_at |-> t[1], created_at |-> t[2]]

\* The attribute-bearing posts, and two mappings as fetch_all_posts builds them.
AnPosts ==
    {MakePost("object", c, t) : c \in AnCounters, t \in AnTimes}
        \cup {MakePost("mapping", <<5, 1, 15>>, <<AwareTime(0), AwareTime(0)>>),
              MakePost("mapping", <<10, 0, 30>>, <<AwareTime(0), AwareTime(0)>>)}

\* The collections of at most MaxPosts posts.
AnCollections == UNION {[1 .. n -> AnPosts] : n \in 0 .. MaxPosts}

AnInputs ==
    {[fn |-> "calculate_engagement", post |-> p] : p \in AnPosts}
        \cup {[fn |-> f, posts |-> ps] :
                 f \in {"find_top_recent_post", "find_top_all_time_post",
                        "find_most_ratioed_post", "analyze_user_posts"},
                 ps \in AnCollections}

AnInit ==
    /\ InitBot
    /\ followers = {}
    /\ fn_args \in AnInputs
    /\ fn_result = NotRun

\* The result of a finished call r: the value it returned, or that it raised.
Outcome(r) == [done |-> TRUE, raised |-> r.raised, value |-> r.value]

\* A caller applies calculate_engagement to a post.
ApplyEngagement ==
    /\ fn_args.fn = "calculate_engagement"
    /\ ~fn_result.done
    /\ fn_result' = Outcome(Returns(calculate_engagement(fn_args.post)))
    /\ UNCHANGED <<tracker_vars, pm_pc, pm_m, pm_posts, thread_posts, pm_i, current,
                   root, pm_ret, pm_raised, pm_fetches, pm_analyses, pm_sent,
                   pm_marked_at, pm_was_processed, prev, ncalls, nposts, followers,
                   fn_args, poll_vars>>

\* A caller applies find_top_recent_post to a collection.
ApplyTopRecent ==
    /\ fn_args.fn = "find_top_recent_post"
    /\ ~fn_result.done
    /\ fn_result' = Outcome(find_top_recent_post(fn_args.posts, RECENT_DAYS))
    /\ UNCHANGED <<tracker_vars, pm_pc, pm_m, pm_posts, thread_posts, pm_i, current,
                   root, pm_ret, pm_raised, pm_fetches, pm_analyses, pm_sent,
                   pm_marked_at, pm_was_processed, prev, ncalls, nposts, followers,
                   fn_args, poll_vars>>

\* A caller applies find_top_all_time_post to a collection.
ApplyTopAllTime ==
    /\ fn_args.fn = "find_top_all_time_post"
    /\ ~fn_result.done
    /\ fn_result' = Outcome(find_top_all_time_post(fn_args.posts))
    /\ UNCHANGED <<tracker_vars, pm_pc, pm_m, pm_posts, thread_posts, pm_i, current,
                   root, pm_ret, pm_raised, pm_fetches, pm_analyses, pm_sent,
                   pm_marked_at, pm_was_processed, prev, ncalls, nposts, followers,
                   fn_args, poll_vars>>

\* A caller applies find_most_ratioed_post to a collection.
ApplyMostRatioed ==
    /\ fn_args.fn = "find_most_ratioed_post"
    /\ ~fn_result.done
    /\ fn_result' = Outcome(find_most_ratioed_post(fn_args.posts, MIN_ENGAGEMENT_FOR_RATIO))
    /\ UNCHANGED <<tracker_vars, pm_pc, pm_m, pm_posts, thread_posts, pm_i, current,
                   root, pm_ret, pm_raised, pm_fetches, pm_analyses, pm_sent,
                   pm_marked_at, pm_was_processed, prev, ncalls, nposts, followers,
                   fn_args, poll_vars>>

\* Lines 110-114 of process_mention: analyze_user_posts on the fetched posts.
ApplyAnalyze ==
    /\ fn_args.fn = "analyze_user_posts"
    /\ ~fn_result.done
    /\ fn_result' = Outcome(analyze_user_posts(fn_args.posts, RECENT_DAYS,
                                                  MIN_ENGAGEMENT_FOR_RATIO))
    /\ UNCHANGED <<tracker_vars, pm_pc, pm_m, pm_posts, thread_posts, pm_i, current,
                   root, pm_ret, pm_raised, pm_fetches, pm_analyses, pm_sent,
                   pm_marked_at, pm_was_processed, prev, ncalls, nposts, followers,
                   fn_args, poll_vars>>

AnNext ==
    \/ ApplyEngagement
    \/ ApplyTopRecent
    \/ ApplyTopAllTime
    \/ ApplyMostRatioed
    \/ ApplyAnalyze

SpecAn == AnInit /\ [][AnNext]_vars

\* ---------------------------------------------------------- the polling loop

\* The reasons a notification carries.
Reasons == {"mention", "like"}

\* A get_notifications that does not filter by the timestamp passed in.
get_notifications_NoFilter(since, listed) == IF listed THEN inbox ELSE <<>>

\* BlueskyClient.get_notifications: the notifications the network lists, those
\* with indexed_at > since when a since is given; the empty list when the
\* listing fails (listed is false).
get_notifications(since, listed) ==
    IF ~listed THEN <<>>
    ELSE IF since # 0 /\ inbox # <<>>
    THEN SelectSeq(inbox, LAMBDA n : n.indexed_at > since)
    ELSE inbox

\* BlueskyClient.get_mentions.
get_mentions(seen_at, listed) ==
    SelectSeq(get_notifications(seen_at, listed), LAMBDA n : n.reason = "mention")

\* The network lists a new notification, about mention m, first; its indexed_at
\* is not before that of the notifications listed so far.
Notify(m, t, reason) ==
    /\ \A k \in 1 .. Len(inbox) : inbox[k].m # m /\ inbox[k].indexed_at <= t
    /\ inbox' = <<[m |-> m, indexed_at |-> t, reason |-> reason]>> \o inbox
    /\ UNCHANGED <<tracker_vars, pm_pc, pm_m, pm_posts, thread_posts, pm_i, current,
                   root, pm_ret, pm_raised, pm_fetches, pm_analyses, pm_sent,
                   pm_marked_at, pm_was_processed, prev, ncalls, nposts, followers,
                   fn_args, fn_result, running, pl_pc, mentions, pl_i, pl_caught,
                   stopped_at, passed_since_stop, interrupted>>

\* Lines 195-196: poll_mentions is called and sets the running flag.
PollStart ==
    /\ pl_pc = "idle"
    /\ running' = TRUE
    /\ pl_pc' = "while"
    /\ UNCHANGED <<tracker_vars, pm_pc, pm_m, pm_posts, thread_posts, pm_i, current,
                   root, pm_ret, pm_raised, pm_fetches, pm_analyses, pm_sent,
                   pm_marked_at, pm_was_processed, prev, ncalls, nposts, followers,
                   fn_args, fn_result, mentions, pl_i, inbox, pl_caught, stopped_at,
                   passed_since_stop, interrupted>>

\* Line 198: the test of `while self.running`.
WhileRunning ==
    /\ pl_pc = "while"
    /\ pl_pc' = IF running THEN "fetch" ELSE "done"
    /\ passed_since_stop' = (passed_since_stop \/ (running /\ stopped_at # "never"))
    /\ UNCHANGED <<tracker_vars, pm_pc, pm_m, pm_posts, thread_posts, pm_i, current,
                   root, pm_ret, pm_raised, pm_fetches, pm_analyses, pm_sent,
                   pm_marked_at, pm_was_processed, prev, ncalls, nposts, followers,
                   fn_args, fn_result, running, mentions, pl_i, inbox, pl_caught,
                   stopped_at, interrupted>>

\* A fetch whose handler gives the loop up when get_mentions raises.
PollGetMentions_FatalError ==
    /\ pl_pc = "fetch"
    /\ \E outcome \in {"listed", "failed", "raise"} :
          IF outcome = "raise"
          THEN /\ pl_caught' = TRUE
               /\ pl_pc' = "done"
               /\ UNCHANGED <<mentions, pl_i>>
          ELSE /\ mentions' = get_mentions(last_seen_at, outcome = "listed")
               /\ pl_i' = 1
               /\ pl_pc' = IF mentions' # <<>> THEN "process" ELSE "sleep"
               /\ pl_caught' = FALSE
    /\ UNCHANGED <<tracker_vars, pm_pc, pm_m, pm_posts, thread_posts, pm_i, current,
                   root, pm_ret, pm_raised, pm_fetches, pm_analyses, pm_sent,
                   pm_marked_at, pm_was_processed, prev, ncalls, nposts, followers,
                   fn_args, fn_result, running, inbox, stopped_at, passed_since_stop,
                   interrupted>>

\* Lines 199-205 and 223-225: get_mentions with the tracker's last_seen_at.  The
\* listing succeeds or fails inside get_notifications, or an exception escapes
\* get_mentions and is caught by the loop, which goes on to its sleep.
PollGetMentions ==
    /\ pl_pc = "fetch"
    /\ \E outcome \in {"listed", "failed", "raise"} :
          IF outcome = "raise"
          THEN /\ pl_caught' = TRUE
               /\ pl_pc' = "sleep"
               /\ UNCHANGED <<mentions, pl_i>>
          ELSE /\ mentions' = get_mentions(last_seen_at, outcome = "listed")
               /\ pl_i' = 1
               /\ pl_pc' = IF mentions' # <<>> THEN "process" ELSE "sleep"
               /\ pl_caught' = FALSE
    /\ UNCHANGED <<tracker_vars, pm_pc, pm_m, pm_posts, thread_posts, pm_i, current,
                   root, pm_ret, pm_raised, pm_fetches, pm_analyses, pm_sent,
                   pm_marked_at, pm_was_processed, prev, ncalls, nposts, followers,
                   fn_args, fn_result, running, inbox, stopped_at, passed_since_stop,
                   interrupted>>

\* Lines 207-208: the loop calls process_mention for the next mention of the batch.
PollProcessBegin ==
    /\ pl_pc = "process"
    /\ pm_pc \in {"idle", "returned"}
    /\ pm_m' = mentions[pl_i].m
    /\ pm_was_processed' = is_processed(mentions[pl_i].m)
    /\ pm_ret' = "none"
    /\ pm_pc' = "check"
    /\ UNCHANGED <<tracker_vars, pm_posts, thread_posts, pm_i, current, root,
                   pm_raised, pm_fetches, pm_analyses, pm_sent, pm_marked_at, prev,
                   ncalls, nposts, followers, fn_args, fn_result, poll_vars>>

\* Lines 207-208: process_mention, whose steps are the actions of Spec, as the
\* loop sees it end: a processed mention is skipped (True); another one is
\* answered, marked and True is returned, or fails, stays unmarked and False is
\* returned; or an exception escapes the call and is caught by the loop, which
\* leaves the rest of the batch and the update of last_seen_at.
PollProcessEnd ==
    /\ pl_pc = "process"
    /\ pm_pc = "check"
    /\ pm_pc' = "returned"
    /\ \E outcome \in {"answered", "failed", "raise"} :
          /\ IF outcome = "raise"
             THEN /\ pm_ret' = "none"
                  /\ UNCHANGED tracker_vars
             ELSE IF is_processed(pm_m)
             THEN /\ pm_ret' = "true"
                  /\ UNCHANGED tracker_vars
             ELSE IF outcome = "answered"
             THEN /\ processed_uris' = mark_processed(pm_m)
                  /\ ever_marked' = ever_marked \cup {pm_m}
                  /\ replied' = [replied EXCEPT ![pm_m] = @ + 1]
                  /\ pm_ret' = "true"
                  /\ UNCHANGED last_seen_at
             ELSE /\ pm_ret' = "false"
                  /\ UNCHANGED tracker_vars
          /\ IF outcome = "raise"
             THEN /\ pl_caught' = TRUE
                  /\ pl_pc' = "sleep"
                  /\ pl_i' = pl_i
             ELSE /\ pl_caught' = pl_caught
                  /\ pl_i' = pl_i + 1
                  /\ pl_pc' = IF pl_i + 1 > Len(mentions) THEN "update" ELSE "process"
    /\ UNCHANGED <<pm_m, pm_posts, thread_posts, pm_i, current, root, pm_raised,
                   pm_fetches, pm_analyses, pm_sent, pm_marked_at, pm_was_processed,
                   prev, ncalls, nposts, followers, fn_args, fn_result, running,
                   mentions, inbox, stopped_at, passed_since_stop, interrupted>>

\* Lines 210-216: after the batch, last_seen_at becomes the indexed_at of the
\* first mention of the batch; update_seen_notifications catches its own
\* failures, or an exception escapes it and is caught by the loop.
PollUpdateSeen ==
    /\ pl_pc = "update"
    /\ last_seen_at' = mentions[1].indexed_at
    /\ \E raises \in BOOLEAN : pl_caught' = raises
    /\ pl_pc' = "sleep"
    /\ UNCHANGED <<processed_uris, ever_marked, replied, pm_pc, pm_m, pm_posts,
                   thread_posts, pm_i, current, root, pm_ret, pm_raised, pm_fetches,
                   pm_analyses, pm_sent, pm_marked_at, pm_was_processed, prev, ncalls,
                   nposts, followers, fn_args, fn_result, running, mentions, pl_i,
                   inbox, stopped_at, passed_since_stop, interrupted>>

\* Lines 227-229: time.sleep(POLL_INTERVAL) returns.
PollSleep ==
    /\ pl_pc = "sleep"
    /\ pl_pc' = "while"
    /\ UNCHANGED <<tracker_vars, pm_pc, pm_m, pm_posts, thread_posts, pm_i, current,
                   root, pm_ret, pm_raised, pm_fetches, pm_analyses, pm_sent,
                   pm_marked_at, pm_was_processed, prev, ncalls, nposts, followers,
                   fn_args, fn_result, running, mentions, pl_i, inbox, pl_caught,
                   stopped_at, passed_since_stop, interrupted>>

\* Lines 218-221: a KeyboardInterrupt raised in the try block, between or inside
\* the calls, ends the loop.
KeyboardInterrupt ==
    /\ pl_pc \in {"fetch", "process", "update"}
    /\ running' = FALSE
    /\ interrupted' = TRUE
    /\ pl_pc' = "done"
    /\ UNCHANGED <<tracker_vars, pm_pc, pm_m, pm_posts, thread_posts, pm_i, current,
                   root, pm_ret, pm_raised, pm_fetches, pm_analyses, pm_sent,
                   pm_marked_at, pm_was_processed, prev, ncalls, nposts, followers,
                   fn_args, fn_result, mentions, pl_i, inbox, pl_caught, stopped_at,
                   passed_since_stop>>

\* BlueskyBot.stop, called from another thread at any point.
stop ==
    /\ running' = FALSE
    /\ stopped_at' = IF pl_pc = "idle" THEN "before_start" ELSE "after_start"
    /\ passed_since_stop' = FALSE
    /\ UNCHANGED <<tracker_vars, pm_pc, pm_m, pm_posts, thread_posts, pm_i, current,
                   root, pm_ret, pm_raised, pm_fetches, pm_analyses, pm_sent,
                   pm_marked_at, pm_was_processed, prev, ncalls, nposts, followers,
                   fn_args, fn_result, pl_pc, mentions, pl_i, inbox, pl_caught,
                   interrupted>>

\* The steps of the thread that runs poll_mentions.
PollStep ==
    \/ PollStart
    \/ WhileRunning
    \/ PollGetMentions
    \/ PollProcessBegin
    \/ PollProcessEnd
    \/ PollUpdateSeen
    \/ PollSleep

PollInit ==
    /\ InitBot
    /\ followers = {}
    /\ fn_args = NoArgs
    /\ fn_result = NotRun

PollNext ==
    \/ PollStep
    \/ \E m \in Mentions, t \in 1 .. MaxTime, reason \in Reasons : Notify(m, t, reason)
    \/ KeyboardInterrupt
    \/ stop

SpecPoll == PollInit /\ [][PollNext]_vars

\* The thread that runs poll_mentions keeps running and every call it makes
\* returns; nothing is assumed of notifications, interrupts and stop().
SpecPollFair == SpecPoll /\ WF_vars(PollStep)

\* ------------------------------------------------- fetch_all_posts on feeds

\* The most pages a feed of the model has, and the greatest max_posts.
MaxPages == 2

MaxPostsToFetch == 3

\* The feed items: an original post with reason None, one without the attribute
\* reason, a repost, and an item whose post has no record.
OriginalPost == [has_record |-> TRUE, reason |-> "none"]

PostWithoutReason == [has_record |-> TRUE, reason |-> "absent"]

Repost == [has_record |-> TRUE, reason |-> "repost"]

NoRecordItem == [has_record |-> FALSE, reason |-> "none"]

\* The pages get_author_feed returns, as the items and whether a cursor came
\* with them.  A request that failed gives the empty page without cursor.
FailedPage == [feed |-> <<>>, cursor |-> FALSE]

FeedPages ==
    {FailedPage,
     [feed |-> <<>>, cursor |-> TRUE],
     [feed |-> <<OriginalPost, Repost>>, cursor |-> TRUE],
     [feed |-> <<OriginalPost, PostWithoutReason, OriginalPost>>, cursor |-> TRUE],
     [feed |-> <<Repost, NoRecordItem>>, cursor |-> TRUE],
     [feed |-> <<PostWithoutReason>>, cursor |-> FALSE],
     [feed |-> <<OriginalPost, OriginalPost>>, cursor |-> FALSE]}

\* BlueskyClient.get_author_feed for the k-th page of a user's feed: the page, or
\* the empty page when the feed has no such page.
get_author_feed(pages, k) == IF k \in 1 .. Len(pages) THEN pages[k] ELSE FailedPage

\* The mapping fetch_all_posts builds from item i of page k; the position
\* stands for the post's uri.
PostDict(k, i) == [shape |-> "mapping", uri |-> <<k, i>>]

\* An inner loop without the break: it takes every original post of the page.
RECURSIVE PageLoop_WholePage(_, _, _, _, _)
PageLoop_WholePage(feed_items, k, i, all_posts, max_posts) ==
    IF i > Len(feed_items) THEN all_posts
    ELSE LET item == feed_items[i]
             kept == IF item.has_record /\ item.reason \in {"absent", "none"}
                     THEN Append(all_posts, PostDict(k, i)) ELSE all_posts
         IN PageLoop_WholePage(feed_items, k, i + 1, kept, max_posts)

\* Lines 164-189: the loop over the items of page k from item i on.  An item is
\* kept when it has a post with a record and its reason is absent or None; the
\* loop is left once max_posts posts are collected.
RECURSIVE PageLoop(_, _, _, _, _)
PageLoop(feed_items, k, i, all_posts, max_posts) ==
    IF i > Len(feed_items) THEN all_posts
    ELSE LET item == feed_items[i]
             kept == IF item.has_record /\ item.reason \in {"absent", "none"}
                     THEN Append(all_posts, PostDict(k, i)) ELSE all_posts
         IN IF Len(kept) >= max_posts THEN kept
            ELSE PageLoop(feed_items, k, i + 1, kept, max_posts)

\* Lines 157-195: the while loop, about to test its condition before request k.
RECURSIVE FetchLoop(_, _, _, _)
FetchLoop(pages, max_posts, k, all_posts) ==
    IF ~(Len(all_posts) < max_posts)
    THEN [posts |-> all_posts, requests |-> k - 1]
    ELSE LET result == get_author_feed(pages, k)
         IN IF result.feed = <<>>
            THEN [posts |-> all_posts, requests |-> k]
            ELSE LET collected == PageLoop(result.feed, k, 1, all_posts, max_posts)
                 IN IF ~result.cursor
                    THEN [posts |-> collected, requests |-> k]
                    ELSE FetchLoop(pages, max_posts, k + 1, collected)

\* BlueskyClient.fetch_all_posts on a feed served page by page: the posts
\* returned, and the number of get_author_feed requests made.
fetch_all_posts(pages, max_posts) == FetchLoop(pages, max_posts, 1, <<>>)

FetchInputs ==
    {[fn |-> "fetch_all_posts", pages |-> ps, max_posts |-> n] :
        ps \in UNION {[1 .. len -> FeedPages] : len \in 0 .. MaxPages},
        n \in 0 .. MaxPostsToFetch}

FetchInit ==
    /\ InitBot
    /\ followers = {}
    /\ fn_args \in FetchInputs
    /\ fn_result = NotRun

\* Lines 97-98 of process_mention: fetch_all_posts for the author of the mention.
ApplyFetchAllPosts ==
    /\ fn_args.fn = "fetch_all_posts"
    /\ ~fn_result.done
    /\ fn_result' = Outcome(Returns(fetch_all_posts(fn_args.pages, fn_args.max_posts)))
    /\ UNCHANGED <<tracker_vars, pm_pc, pm_m, pm_posts, thread_posts, pm_i, current,
                   root, pm_ret, pm_raised, pm_fetches, pm_analyses, pm_sent,
                   pm_marked_at, pm_was_processed, prev, ncalls, nposts, followers,
                   fn_args, poll_vars>>

FetchNext == ApplyFetchAllPosts

SpecFetch == FetchInit /\ [][FetchNext]_vars

\* ------------------------------------------------------------ vocabulary

\* The call in progress has returned.
Returned == pm_pc = "returned"

\* The returned call was a skip: no fetch, no analysis, no reply.
NoOpSkip == pm_fetches = 0 /\ pm_analyses = 0 /\ pm_sent = <<>>

\* Every send_reply call made so far in this call created its post.
AllSendsOk == \A k \in 1 .. Len(pm_sent) : pm_sent[k].result.uri # None

\* The call is sending (or has sent) a thread: posts were found and nothing raised.
InThread == pm_posts = "some" /\ pm_raised = "no"

\* The number of send_reply calls of this call whose text is t.
SendsOf(t) == Cardinality({k \in 1 .. Len(pm_sent) : pm_sent[k].text = t})

\* The analysis slot that block i of the thread is rendered from.
SlotOf(i) ==
    IF i = 1 THEN fn_args.top_recent
    ELSE IF i = 2 THEN fn_args.top_all_time
    ELSE fn_args.most_ratioed

\* Block i of the thread is rendered from a post, not a placeholder text.
BlockFromPost(i) ==
    /\ SlotOf(i).present
    /\ (i = 3) => SlotOf(i).score.num >= RATIO_THRESHOLD * SlotOf(i).score.den

\* The parts of block i before the fit algorithm, for a block rendered from a post.
BlockParts(i) ==
    IF i = 1
    THEN ThreadPostParts(<<"FIRE">>, RecentTitle(fn_args.recent_days, SlotOf(1).score),
                         SlotOf(1).post, Absent, fn_args.handle)
    ELSE IF i = 2
    THEN ThreadPostParts(<<"CROWN">>, AllTimeTitle(SlotOf(2).score), SlotOf(2).post,
                         Absent, fn_args.handle)
    ELSE ThreadPostParts(<<"PEPPER", "VS16">>, MostRatioedTitle, SlotOf(3).post,
                         RatioLabel \o FormatRatio(SlotOf(3).score), fn_args.handle)

\* The length of block i without its preview segment: title line, stats, score
\* annotation, permalink and the separators between the parts.
RestLen(i) ==
    LET parts == BlockParts(i)
    IN Len(Join(parts, BlankLine)) - Len(parts[Len(parts) - 1])

\* The thread has been rendered from the arguments.
Rendered == fn_args.fn = "create_thread_responses" /\ fn_result.done

\* seg occurs in text as a run of consecutive characters.
HasSegment(text, seg) ==
    \E i \in 1 .. Len(text) - Len(seg) + 1 : SubSeq(text, i, i + Len(seg) - 1) = seg

\* text is an annotated Most Ratioed block for the ratio score: it opens with the
\* pepper and the title on a line of their own and has the line Ratio: X.X
\* between blank lines.
IsAnnotatedRatioBlock(text, score) ==
    LET head == <<"PEPPER", "VS16", " ">> \o MostRatioedTitle \o BlankLine
    IN /\ Len(text) >= Len(head)
       /\ SubSeq(text, 1, Len(head)) = head
       /\ HasSegment(text, BlankLine \o RatioLabel \o FormatRatio(score) \o BlankLine)

\* The function f of the analysis has been applied and has returned or raised.
Applied(f) == fn_args.fn = f /\ fn_result.done

\* The number a counter field stands for: 0 where the counter is absent.
CountOf(v) == IF v = NoCounter THEN 0 ELSE v

\* like_count + repost_count + reply_count of post p in either representation,
\* an absent counter counted as 0.
CounterSum(p) == CountOf(p.like_count) + CountOf(p.repost_count) + CountOf(p.reply_count)

\* One of the three queries or analyze_user_posts has been applied.
AppliedQuery ==
    /\ fn_args.fn \in {"find_top_recent_post", "find_top_all_time_post",
                       "find_most_ratioed_post", "analyze_user_posts"}
    /\ fn_result.done

\* The timestamp of post p: the indexed one, or the creation one when there is
\* no indexed one.
TimestampOf(p) == IF p.indexed_at # NoTimestamp THEN p.indexed_at ELSE p.created_at

\* Post p has a timestamp that exists and is not older than days days.
InWindow(p, days) ==
    TimestampOf(p).kind \in {"aware", "naive"} /\ TimestampOf(p).age <= days

\* Position i is the first position among S whose post has the greatest sum of
\* counters among the posts at the positions S.
FirstTopEngagement(posts, S, i) ==
    /\ i \in S
    /\ \A j \in S : CounterSum(posts[i]) >= CounterSum(posts[j])
    /\ \A j \in S : j < i => CounterSum(posts[j]) < CounterSum(posts[i])

\* replies / max(likes, 1) of post p in either representation, as a fraction.
RatioOf(p) == [num |-> CountOf(p.reply_count), den |-> Max(CountOf(p.like_count), 1)]

\* Two fractions are the same number.
SameRatio(a, b) == a.num * b.den = b.num * a.den

\* Position i is the first position among S whose post has the greatest ratio
\* among the posts at the positions S.
FirstTopRatio(posts, S, i) ==
    /\ i \in S
    /\ \A j \in S : RatioGeq(RatioOf(posts[i]), RatioOf(posts[j]))
    /\ \A j \in S : j < i => ~RatioGeq(RatioOf(posts[j]), RatioOf(posts[i]))

\* v is a slot value of the analysis of posts: no result, or a post of the
\* collection paired with a score.
IsSlotValue(v, posts) ==
    \/ v = NoResult
    \/ /\ DOMAIN v = {"present", "post", "score"}
       /\ v.present
       /\ \E i \in 1 .. Len(posts) : v.post = posts[i]

\* The identifier without the scheme prefix at:// it starts with, if it does.
StripScheme(uri) ==
    IF Len(uri) >= Len(AtScheme) /\ SubSeq(uri, 1, Len(AtScheme)) = AtScheme
    THEN SubSeq(uri, Len(AtScheme) + 1, Len(uri))
    ELSE uri

\* The segments of the identifier: authority, collection, record key when it has
\* the expected shape.
Segments(uri) == SplitSlash(StripScheme(uri))

\* --------------------------------------------------------------- claims

C2_FailedMentionIsMarked ==
    (Returned /\ pm_raised # "no") => is_processed(pm_m)

\* C3: when a collaborator call raised inside process_mention, the call made
\* exactly one error reply, its last send_reply call, whose parent is the mention,
\* and returned False whether or not that reply was created; a raised exception is
\* only ever in the handler or behind a finished call.
C3_OneErrorReplyThenFalse ==
    /\ (pm_raised # "no") => pm_pc \in {"except", "returned"}
    /\ (pm_raised = "no") => SendsOf("error") = 0
    /\ (Returned /\ pm_raised # "no") =>
          /\ SendsOf("error") = 1
          /\ pm_sent[Len(pm_sent)].text = "error"
          /\ pm_sent[Len(pm_sent)].parent = MentionRef(pm_m)
          /\ pm_ret = "false"

C3_Witness ==
    /\ Returned
    /\ pm_raised = "analyse"
    /\ Len(pm_sent) = 1
    /\ pm_sent[1].text = "error"
    /\ pm_sent[1].result = NoRef
    /\ pm_ret = "false"

\* C4: in a thread whose sends so far all succeeded, send k carries the k-th of
\* the blocks recent, all-time, ratio; the first reply's parent is the mention and
\* each later reply's parent is the reply before it and its root is the first reply.
C4_ReplyChain ==
    \A k \in 1 .. Len(pm_sent) :
        (InThread /\ \A j \in 1 .. k : pm_sent[j].result.uri # None) =>
            /\ k <= 3
            /\ pm_sent[k].text = <<"recent", "alltime", "ratio">>[k]
            /\ (k = 1) => pm_sent[k].parent = MentionRef(pm_m)
            /\ (k > 1) => /\ pm_sent[k].parent = pm_sent[k - 1].result
                          /\ pm_sent[k].root = pm_sent[1].result

C4_Witness ==
    /\ Returned
    /\ InThread
    /\ Len(pm_sent) = 3
    /\ AllSendsOk
    /\ pm_sent[3].parent = pm_sent[2].result
    /\ pm_sent[2].parent = pm_sent[1].result

\* C5 as stated: the replies of one thread all carry one and the same root.
C5_AllRepliesShareRoot ==
    InThread =>
        \A j, k \in 1 .. Len(pm_sent) : pm_sent[j].root = pm_sent[k].root

\* C5 as amended: the first reply of a thread, sent without a root, carries the
\* mention as its root, and every later reply of the thread carries the first
\* reply as its root.
C5_LaterRepliesShareFirstReplyAsRoot ==
    InThread =>
        \A k \in 1 .. Len(pm_sent) :
            /\ (k = 1) => pm_sent[k].root = MentionRef(pm_m)
            /\ (k > 1) => pm_sent[k].root = pm_sent[1].result

C5_Witness ==
    /\ InThread
    /\ Len(pm_sent) = 3
    /\ pm_sent[1].root = MentionRef(pm_m)
    /\ pm_sent[2].root = pm_sent[1].result
    /\ pm_sent[3].root = pm_sent[1].result
    /\ pm_sent[3].parent # pm_sent[1].result

\* C6: a call for an unprocessed mention that found posts, met no exception and
\* whose sends all succeeded made exactly three send_reply calls, marked the
\* mention after the third and returned True; while a call is between the fetch
\* and the end of the send loop its mention is not in the processed set.
C6_ThreeSendsThenMark ==
    /\ (pm_pc \in {"fetch", "analyse", "format", "send_first", "send_next"})
          => ~is_processed(pm_m)
    /\ (Returned /\ ~pm_was_processed /\ InThread /\ AllSendsOk) =>
          /\ Len(pm_sent) = 3
          /\ pm_marked_at = 3
          /\ is_processed(pm_m)
          /\ pm_ret = "true"

C6_Witness ==
    /\ Returned
    /\ ~pm_was_processed
    /\ InThread
    /\ AllSendsOk
    /\ pm_marked_at = 3
    /\ pm_ret = "true"

\* C7: a call whose fetch returned an empty collection made exactly one
\* send_reply call, the no-posts notice replying to the mention, ran no analysis,
\* marked the mention processed and returned True.
C7_EmptyFeedOneNotice ==
    /\ (pm_posts = "empty") => pm_pc \in {"noposts", "returned"}
    /\ (Returned /\ pm_posts = "empty") =>
          /\ Len(pm_sent) = 1
          /\ pm_sent[1].text = "noposts"
          /\ pm_sent[1].parent = MentionRef(pm_m)
          /\ pm_analyses = 0
          /\ is_processed(pm_m)
          /\ pm_ret = "true"

C7_Witness ==
    /\ Returned
    /\ pm_posts = "empty"
    /\ Len(pm_sent) = 1
    /\ pm_analyses = 0
    /\ is_processed(pm_m)

\* C8: a call for an unprocessed mention whose author does not follow the bot
\* (here: one whose fetch, analysis, formatting and sends all went well) made
\* exactly one send_reply call, the follow-first prompt, marked the mention
\* processed and returned True.
C8_NonFollowerGetsFollowPrompt ==
    (Returned /\ ~pm_was_processed /\ pm_m \notin followers /\ pm_raised = "no"
              /\ AllSendsOk) =>
        /\ Len(pm_sent) = 1
        /\ pm_sent[1].text = "follow"
        /\ is_processed(pm_m)
        /\ pm_ret = "true"

\* C9: the step that finds the mention's URI in the processed set returns True
\* with no fetch_all_posts and no send_reply call made, and leaves the processed
\* set and last_seen_at as they were.
C9_SkipChangesNothing ==
    [][(pm_pc = "check" /\ is_processed(pm_m)) =>
          /\ pm_pc' = "returned"
          /\ pm_ret' = "true"
          /\ pm_fetches' = 0
          /\ pm_sent' = <<>>
          /\ processed_uris' = processed_uris
          /\ last_seen_at' = last_seen_at]_vars

C9_Witness ==
    /\ Returned
    /\ pm_was_processed
    /\ pm_ret = "true"
    /\ NoOpSkip
    /\ last_seen_at # 0
    /\ Cardinality(processed_uris) = 2

C11_NoticesWithinLimit ==
    (fn_args.fn \in {"format_no_posts_response", "format_error_response"}
        /\ fn_result.done)
        => Len(fn_result.value) <= MAX_POST_LENGTH

\* C12: the third block of create_thread_responses is the annotated Most Ratioed
\* block, with its Ratio: X.X line, if and only if most_ratioed is present and
\* its ratio is at least 3.0; in every other case, absent or present below 3.0,
\* it is one and the same fixed fallback text.
C12_ThirdBlockAnnotatedIffAtThreshold ==
    Rendered =>
        LET slot == fn_args.most_ratioed
            third == fn_result.value[3]
        IN IF slot.present /\ slot.score.num >= 3 * slot.score.den
           THEN IsAnnotatedRatioBlock(third, slot.score) /\ third # NoRatioText
           ELSE third = NoRatioText /\ ~HasSegment(third, RatioLabel)

\* A ratio of exactly 3.0 rendered as the annotated block.
C12_Witness ==
    /\ Rendered
    /\ fn_args.most_ratioed.present
    /\ fn_args.most_ratioed.score = [num |-> 3, den |-> 1]
    /\ HasSegment(fn_result.value[3],
                  RatioLabel \o <<"3", ".", "0">> \o BlankLine \o <<"QUOTE">>)

\* C13: for every post in either representation, attribute-bearing object or
\* key/value mapping, calculate_engagement returns like_count + repost_count +
\* reply_count, an absent counter counted as 0.
C13_EngagementIsCounterSum ==
    Applied("calculate_engagement") =>
        /\ ~fn_result.raised
        /\ fn_result.value = CounterSum(fn_args.post)

\* C14: analyze_user_posts and its three queries never raise for any collection
\* of posts, collections that mix zone-aware, naive, unparseable and absent
\* timestamps in any order included.
C14_AnalysisNeverRaises ==
    AppliedQuery => ~fn_result.raised

\* C15: find_top_recent_post returns no result exactly when no post has a
\* timestamp that exists and is within the window; otherwise it returns
\* (p, engagement(p)) for the first post p in collection order with the greatest
\* engagement among the posts within the window; a post with an absent timestamp
\* or one older than the window is never returned.
C15_TopRecentIsFirstBestInWindow ==
    Applied("find_top_recent_post") =>
        LET posts == fn_args.posts
            window == {i \in 1 .. Len(posts) : InWindow(posts[i], RECENT_DAYS)}
        IN /\ ~fn_result.raised
           /\ fn_result.value.present <=> window # {}
           /\ fn_result.value.present =>
                 \E i \in window :
                    /\ FirstTopEngagement(posts, window, i)
                    /\ fn_result.value.post = posts[i]
                    /\ fn_result.value.score = CounterSum(posts[i])

\* C16: find_top_all_time_post returns no result only for the empty collection;
\* for a non-empty one it returns (p, engagement(p)) for the first post p in
\* collection order whose engagement no other post exceeds.
C16_TopAllTimeIsFirstBest ==
    Applied("find_top_all_time_post") =>
        LET posts == fn_args.posts
            all == 1 .. Len(posts)
        IN /\ ~fn_result.raised
           /\ fn_result.value.present <=> posts # <<>>
           /\ fn_result.value.present =>
                 \E i \in all :
                    /\ FirstTopEngagement(posts, all, i)
                    /\ fn_result.value.post = posts[i]
                    /\ fn_result.value.score = CounterSum(posts[i])

\* C17: find_most_ratioed_post returns no result exactly when no post has at
\* least min_likes likes; otherwise it returns (p, replies(p) / max(likes(p), 1))
\* for the first post p in collection order with the greatest ratio among the
\* posts with at least min_likes likes, so a post below the threshold is never
\* returned, not even when its ratio is the greatest.
C17_MostRatioedIsFirstBestAboveThreshold ==
    Applied("find_most_ratioed_post") =>
        LET posts == fn_args.posts
            enough == {i \in 1 .. Len(posts) :
                          CountOf(posts[i].like_count) >= MIN_ENGAGEMENT_FOR_RATIO}
        IN /\ ~fn_result.raised
           /\ fn_result.value.present <=> enough # {}
           /\ fn_result.value.present =>
                 \E i \in enough :
                    /\ FirstTopRatio(posts, enough, i)
                    /\ fn_result.value.post = posts[i]
                    /\ SameRatio(fn_result.value.score, RatioOf(posts[i]))

\* C18: every value analyze_user_posts returns is a mapping with exactly the
\* three keys top_recent, top_all_time and most_ratioed, each holding a
\* (post, score) pair or no result; for the empty collection all three hold no
\* result.
C18_AnalysisHasThreeSlots ==
    (Applied("analyze_user_posts") /\ ~fn_result.raised) =>
        LET result == fn_result.value
        IN /\ DOMAIN result = {"top_recent", "top_all_time", "most_ratioed"}
           /\ \A k \in DOMAIN result : IsSlotValue(result[k], fn_args.posts)
           /\ (fn_args.posts = <<>>) =>
                 \A k \in DOMAIN result : result[k] = NoResult

\* An analysis whose slots are mixed: an all-time and a most-ratioed post, and
\* no recent one.
C18_Witness ==
    /\ Applied("analyze_user_posts")
    /\ ~fn_result.raised
    /\ Len(fn_args.posts) = 2
    /\ fn_result.value.top_recent = NoResult
    /\ fn_result.value.top_all_time # NoResult
    /\ fn_result.value.most_ratioed # NoResult
    /\ fn_result.value.most_ratioed.post # fn_result.value.top_all_time.post

\* C19: for every text and every max_len, truncate_text returns the text
\* unchanged when it is at most max_len long, and otherwise a string of exactly
\* max_len characters: the first max_len - 3 characters of the text followed by
\* the three dots of the ellipsis.
C19_TruncateToExactlyMaxLen ==
    (fn_args.fn = "truncate_text" /\ fn_result.done) =>
        IF Len(fn_args.text) <= fn_args.max_length
        THEN fn_result.value = fn_args.text
        ELSE /\ Len(fn_result.value) = fn_args.max_length
             /\ fn_result.value =
                   SubSeq(fn_args.text, 1, fn_args.max_length - 3) \o <<".", ".", ".">>

\* C20: uri_to_url returns the identifier unchanged whenever the identifier,
\* after stripping the scheme prefix and splitting on the slash, does not have
\* the three segments authority, collection and record key; when it has them it
\* returns https://bsky.app/profile/ followed by the handle if one is supplied,
\* else by the authority, then /post/ and the record key.
C20_PermalinkOrUnchanged ==
    (fn_args.fn = "uri_to_url" /\ fn_result.done) =>
        LET segments == Segments(fn_args.uri)
            supplied == fn_args.handle # Absent /\ fn_args.handle # <<>>
        IN IF Len(segments) = 3
           THEN fn_result.value =
                   ProfilePrefix \o (IF supplied THEN fn_args.handle ELSE segments[1])
                       \o PostInfix \o segments[3]
           ELSE fn_result.value = fn_args.uri

\* C23: the processed-mention set only grows: a URI that is_processed stays so in
\* every later state, and after every step is_processed holds exactly of the URIs
\* mark_processed has been called with (ever_marked), so never of an unmarked one.
C23_ProcessedSetOnlyGrows ==
    [][/\ \A u \in Mentions : is_processed(u) => u \in processed_uris'
       /\ \A v \in Mentions : (v \in processed_uris') <=> (v \in ever_marked')]_vars

\* One mention was marked by an earlier call and is still processed after a later
\* call for another mention failed and left that one unmarked.
C23_Witness ==
    /\ Returned
    /\ pm_ret = "false"
    /\ ~is_processed(pm_m)
    /\ pm_m \notin ever_marked
    /\ \E u \in Mentions : u # pm_m /\ is_processed(u) /\ replied[u] >= 1

\* The first send_reply of the call was the first post of the thread and
\* returned no uri.
FirstSendFailed ==
    /\ Len(pm_sent) >= 1
    /\ pm_sent[1].text = ThreadBlocks[1]
    /\ pm_sent[1].result.uri = None

\* The first post of the thread was created and a later send_reply returned no uri.
LaterSendFailed ==
    /\ Len(pm_sent) >= 2
    /\ pm_sent[1].text = ThreadBlocks[1]
    /\ pm_sent[1].result.uri # None
    /\ \E k \in 2 .. Len(pm_sent) : pm_sent[k].result.uri = None

\* The result of the latest send before the k-th that created a post.
LastCreatedBefore(k) ==
    LET created == {j \in 1 .. (k - 1) : pm_sent[j].result.uri # None}
        last == CHOOSE j \in created : \A i \in created : i <= j
    IN  pm_sent[last].result

\* C28: when the first reply of a thread is not created, that send_reply call is
\* the only one of the call (no further thread post, no error notice), the
\* mention is not marked processed and process_mention has returned False.
C28_FirstSendFailureStopsUnmarked ==
    FirstSendFailed =>
        /\ Returned
        /\ Len(pm_sent) = 1
        /\ pm_ret = "false"
        /\ pm_marked_at = -1
        /\ ~is_processed(pm_m)
        /\ pm_m \notin ever_marked

C28_Witness ==
    /\ FirstSendFailed
    /\ Returned
    /\ pm_ret = "false"
    /\ pm_fetches = 1
    /\ pm_analyses = 1
    /\ ~is_processed(pm_m)

\* C29: when the first reply was created and a later one was not, the call that
\* has returned made one send_reply call per thread post, each later one with
\* root = the first reply and parent = the latest reply created before it, then
\* marked the mention processed after the last send and returned True.
C29_LaterFailureKeepsGoing ==
    (Returned /\ LaterSendFailed) =>
        /\ Len(pm_sent) = Len(ThreadBlocks)
        /\ \A k \in 2 .. Len(pm_sent) :
              /\ pm_sent[k].text = ThreadBlocks[k]
              /\ pm_sent[k].root = pm_sent[1].result
              /\ pm_sent[k].parent = LastCreatedBefore(k)
        /\ pm_marked_at = Len(ThreadBlocks)
        /\ is_processed(pm_m)
        /\ pm_ret = "true"

\* The second post failed and the third was created as a reply to the first.
C29_Witness ==
    /\ Returned
    /\ LaterSendFailed
    /\ Len(pm_sent) = 3
    /\ pm_sent[2].result.uri = None
    /\ pm_sent[3].result.uri # None
    /\ pm_sent[3].parent = pm_sent[1].result
    /\ is_processed(pm_m)

\* Post p passes the window test of find_top_recent_post when it is the only
\* post of the collection, so that the cutoff it meets is of its own kind.
AloneInWindow(p, days) == RecentLoop(<<p>>, days, 1, FALSE, <<>>).recent_posts # <<>>

\* The posts find_top_recent_post has put on its recent_posts list, in order.
ScannedRecent(posts, days) ==
    LET scan == RecentLoop(posts, days, 1, FALSE, <<>>)
    IN [k \in 1 .. Len(scan.recent_posts) |-> scan.recent_posts[k].post]

\* C24 as stated: in find_top_recent_post every post is compared with a cutoff of
\* its own kind whatever the posts before it: the call does not raise, and the
\* posts it takes as within the window are exactly the posts of the collection
\* that are within the window when scanned alone.
C24_WindowTestIndependentOfOtherPosts ==
    Applied("find_top_recent_post") =>
        /\ ~fn_result.raised
        /\ ScannedRecent(fn_args.posts, RECENT_DAYS)
               = SelectSeq(fn_args.posts, LAMBDA p : AloneInWindow(p, RECENT_DAYS))

\* C30: when analyze_user_posts returns, a top_recent and a top_all_time result
\* that are both present satisfy top_all_time score >= top_recent score, and
\* top_all_time is present whenever top_recent or most_ratioed is.
C30_AllTimeDominatesRecent ==
    (Applied("analyze_user_posts") /\ ~fn_result.raised) =>
        LET result == fn_result.value
        IN /\ (result.top_recent.present /\ result.top_all_time.present) =>
                  result.top_all_time.score >= result.top_recent.score
           /\ (result.top_recent.present \/ result.most_ratioed.present) =>
                  result.top_all_time.present

\* All three slots are filled and the all-time post, older than the window,
\* scores strictly more than the recent one.
C30_Witness ==
    /\ Applied("analyze_user_posts")
    /\ ~fn_result.raised
    /\ fn_result.value.top_recent.present
    /\ fn_result.value.top_all_time.present
    /\ fn_result.value.most_ratioed.present
    /\ fn_result.value.top_all_time.score > fn_result.value.top_recent.score
    /\ ~InWindow(fn_result.value.top_all_time.post, RECENT_DAYS)

\* The assembled block i, before the fit algorithm.
Assembled(i) == Join(BlockParts(i), BlankLine)

\* The preview segment of block i.
PreviewOf(i) == BlockParts(i)[Len(BlockParts(i)) - 1]

\* What precedes the preview in block i: title line, stats line and score
\* annotation, each followed by a blank line.
BeforePreview(i) ==
    LET parts == BlockParts(i)
    IN Join(SubSeq(parts, 1, Len(parts) - 2), BlankLine) \o BlankLine

\* What follows the preview in block i: a blank line and the permalink.
AfterPreview(i) == BlankLine \o BlockParts(i)[Len(BlockParts(i))]

\* short is text itself or a proper prefix of it followed by three full stops,
\* shorter than text.
IsShortening(short, text) ==
    \/ short = text
    \/ /\ Len(short) < Len(text)
       /\ Len(short) >= 3
       /\ SubSeq(short, Len(short) - 2, Len(short)) = <<".", ".", ".">>
       /\ SubSeq(short, 1, Len(short) - 3) = SubSeq(text, 1, Len(short) - 3)

\* C25: a block format_thread_post assembled to at most 300 characters is
\* returned as assembled; one assembled to more than 300 characters is returned
\* with title line, stats line, score annotation and permalink unchanged and in
\* that order around a shortening of the preview, and is at most 300 characters
\* long whenever the block without its preview takes at most 280.
C25_OnlyPreviewShortened ==
    Rendered =>
        \A i \in 1 .. 3 :
            BlockFromPost(i) =>
                LET out == fn_result.value[i]
                    head == BeforePreview(i)
                    tail == AfterPreview(i)
                IN IF Len(Assembled(i)) <= MAX_POST_LENGTH
                   THEN out = Assembled(i)
                   ELSE /\ Len(out) >= Len(head) + Len(tail)
                        /\ SubSeq(out, 1, Len(head)) = head
                        /\ SubSeq(out, Len(out) - Len(tail) + 1, Len(out)) = tail
                        /\ IsShortening(SubSeq(out, Len(head) + 1, Len(out) - Len(tail)),
                                        PreviewOf(i))
                        /\ (RestLen(i) <= MAX_POST_LENGTH - MIN_PREVIEW_BUDGET) =>
                               Len(out) <= MAX_POST_LENGTH

\* The first block was assembled too long with room left for the preview, and
\* came back exactly 300 characters long, ending in its permalink.
C25_Witness ==
    /\ Rendered
    /\ BlockFromPost(1)
    /\ Len(Assembled(1)) > MAX_POST_LENGTH
    /\ RestLen(1) <= MAX_POST_LENGTH - MIN_PREVIEW_BUDGET
    /\ Len(fn_result.value[1]) = MAX_POST_LENGTH
    /\ fn_result.value[1] # Assembled(1)
    /\ SubSeq(fn_result.value[1], MAX_POST_LENGTH - Len(AfterPreview(1)) + 1,
              MAX_POST_LENGTH) = AfterPreview(1)

\* Item i of page k is an original post: it has a record and is not a repost.
IsOriginal(pages, k, i) ==
    /\ k \in 1 .. Len(pages)
    /\ i \in 1 .. Len(pages[k].feed)
    /\ pages[k].feed[i].has_record
    /\ pages[k].feed[i].reason # "repost"

\* The positions of the original posts on the pages 1 .. n.
OriginalsUpTo(pages, n) ==
    UNION {{<<k, i>> : i \in {j \in 1 .. Len(pages[k].feed) : IsOriginal(pages, k, j)}} :
              k \in 1 .. Min(n, Len(pages))}

\* Position a comes before position b in feed order.
FeedBefore(a, b) == a[1] < b[1] \/ (a[1] = b[1] /\ a[2] < b[2])

\* After page k nothing more is to be requested: the page is empty, it carries
\* no cursor, or max_posts posts are there to collect on the pages so far.
StopsAfter(pages, max_posts, k) ==
    \/ get_author_feed(pages, k).feed = <<>>
    \/ ~get_author_feed(pages, k).cursor
    \/ Cardinality(OriginalsUpTo(pages, k)) >= max_posts

\* C26: fetch_all_posts returns original posts only (a record, reason absent or
\* None), in feed order across the pages it requested, at most max_posts of
\* them, leaving out an original post of those pages only when max_posts posts
\* precede it; and the last page it requested is the first one that is empty,
\* carries no cursor or completes max_posts posts (none at all for max_posts 0).
C26_FetchAllPosts ==
    Applied("fetch_all_posts") =>
        LET pages == fn_args.pages
            max_posts == fn_args.max_posts
            posts == fn_result.value.posts
            requests == fn_result.value.requests
            returned == {posts[j].uri : j \in 1 .. Len(posts)}
        IN /\ ~fn_result.raised
           /\ Len(posts) <= max_posts
           /\ returned \subseteq OriginalsUpTo(pages, requests)
           /\ \A j \in 1 .. Len(posts) - 1 : FeedBefore(posts[j].uri, posts[j + 1].uri)
           /\ \A pos \in OriginalsUpTo(pages, requests) \ returned :
                 /\ Len(posts) = max_posts
                 /\ \A r \in returned : FeedBefore(r, pos)
           /\ IF max_posts = 0 THEN requests = 0
              ELSE /\ requests >= 1
                   /\ StopsAfter(pages, max_posts, requests)
                   /\ \A k \in 1 .. requests - 1 : ~StopsAfter(pages, max_posts, k)

\* Two pages were requested; the first gave one original post and a repost, the
\* second three original posts of which only two were taken to reach max_posts.
C26_Witness ==
    /\ Applied("fetch_all_posts")
    /\ fn_args.max_posts = 3
    /\ fn_result.value.requests = 2
    /\ Len(fn_result.value.posts) = 3
    /\ fn_result.value.posts[1].uri = <<1, 1>>
    /\ fn_result.value.posts[3].uri = <<2, 2>>
    /\ IsOriginal(fn_args.pages, 2, 3)
    /\ ~IsOriginal(fn_args.pages, 1, 2)

\* stop() has been called.
StopCalled == stopped_at # "never"

\* poll_mentions has left its loop.
LoopEnded == pl_pc = "done"

\* A call of process_mention made by the loop has not returned.
MidMention == pm_pc = "check"

\* C21 as stated: wherever poll_mentions stands when stop() is called, the loop
\* ends; after the call the loop condition never holds again, so no further
\* fetch of mentions starts, and the loop does not end on stop() with a mention
\* in the middle of its processing.
C21_StopAlwaysEndsLoop ==
    /\ StopCalled ~> LoopEnded
    /\ [](~passed_since_stop)
    /\ []((LoopEnded /\ ~interrupted) => ~MidMention)

\* C22: an exception caught in an iteration leads to the sleep of that
\* iteration, the loop is left only with the running flag false, and every
\* sleep is followed by another fetch of mentions unless the flag has become
\* false.
C22_ExceptionDoesNotStopLoop ==
    /\ [][(pl_caught' /\ pl_pc \in {"fetch", "process", "update"}
               /\ pl_pc' # pl_pc /\ ~interrupted') => pl_pc' = "sleep"]_vars
    /\ [](LoopEnded => ~running)
    /\ (pl_pc = "sleep") ~> (pl_pc = "fetch" \/ ~running)

\* The loop is about to fetch mentions again after an iteration in which an
\* exception was caught, a batch having been processed before that.
C22_Witness ==
    /\ pl_pc = "fetch"
    /\ pl_caught
    /\ running
    /\ last_seen_at # 0
    /\ ~StopCalled

\* C27: last_seen_at starts absent and never moves backwards; it changes only
\* in the step after the last mention of a non-empty batch has been processed,
\* and that step sets it to the indexed_at of the first mention of the batch,
\* which is strictly greater than the value it had.
C27_LastSeenOnlyAdvances ==
    /\ last_seen_at = 0
    /\ [][/\ last_seen_at' >= last_seen_at
          /\ (last_seen_at' # last_seen_at) =>
                /\ pl_pc = "update"
                /\ mentions # <<>>
                /\ pl_i = Len(mentions) + 1
                /\ pm_pc = "returned"
          /\ (pl_pc = "update" /\ pl_pc' = "sleep") =>
                /\ last_seen_at' = mentions[1].indexed_at
                /\ last_seen_at' > last_seen_at]_vars

\* last_seen_at has advanced twice: the batch just processed holds only the
\* newer of two listed mentions, the older one having been answered before.
C27_Witness ==
    /\ pl_pc = "sleep"
    /\ Len(mentions) = 1
    /\ last_seen_at = mentions[1].indexed_at
    /\ \E k \in 1 .. Len(inbox) :
          /\ inbox[k].reason = "mention"
          /\ inbox[k].indexed_at < last_seen_at
          /\ is_processed(inbox[k].m)

====
